---- MODULE Spec2Model ----
(***************************************************************************)
(* Demand/supply hexagon dashboard: snapshot aggregation, ratio policies,  *)
(* pricing lookup, distribution sampling, histogram binning and the        *)
(* run-identifier protocol of the distribution view.                       *)
(*                                                                         *)
(* Numbers.  JavaScript numbers are modelled by exact values: a rational   *)
(* n/d (d > 0, lowest terms), or the signed square root sgn(n)*sqrt(|n|/d) *)
(* that a z-score (x - mean)/sqrt(variance) is.  Rounding of IEEE doubles  *)
(* is not modelled.  Time is counted in ticks, MinuteMs ticks to a minute. *)
(***************************************************************************)
EXTENDS Integers, Sequences, FiniteSets, TLC

VARIABLES
  demandEvents,         \* prop: array of [timestamp, loc]
  supplyVehicles,       \* prop: array of [startTime, endTime, loc]
  multiplierData,       \* prop: array of [minRatio, multiplier]
  basePrice,            \* prop: a rational
  snapshotTime,         \* prop: instant of the map snapshot
  timeframeMinutes,     \* prop: demand lookback window, minutes
  normalizationEnabled, \* prop: z-score toggle
  activeHexagons,       \* HexagonMap useMemo result (active part)
  inactiveHexagons,     \* HexagonMap useMemo result (halo part)
  gridDiskThrows,       \* the cells for which gridDisk(hexId, 1) throws
  snapshotRange,        \* prop of the map with the validity check, or NoRange
  mapV2,                \* what that map computes and hands to DeckGL
  heatmap,              \* prop of that map: array of [ratio, color]
  snapshotEntries,      \* computeSnapshotEntries(snapshotTime) of the distribution view
  priceRatio,           \* argument of a pricing lookup
  priceOut,             \* getMultiplier(priceRatio) of the distribution view
  priceOutMap,          \* getMultiplier(priceRatio) of the map
  rangeFrom,            \* from.getTime() of a run: start of the clamped range
  rangeTo,              \* to.getTime() of a run: end of the clamped range
  times,                \* the sample instants of a run
  loopT,                \* the variable t of the loop that fills times
  sweepPc,              \* where run() stands in building times
  histEntries,          \* the population a histogram is built from
  histogramData,        \* histogramData useMemo result
  minTime,              \* prop: earliest instant of the data, or NoTime
  maxTime,              \* prop: latest instant of the data, or NoTime
  draftFromValue,       \* state: range start typed into the form
  draftToValue,         \* state: range end typed into the form
  draftStepMinutes,     \* state: step chosen in the form
  draftBins,            \* state: bin count chosen in the form
  fromValue,            \* state: applied range start
  toValue,              \* state: applied range end
  stepMinutes,          \* state: applied step
  bins,                 \* state: applied bin count
  recalcNonce,          \* state: bumped by Recalculate
  distributionResult,   \* state: the committed result
  isCalculating,        \* state: the calculating indicator
  calcRunIdRef,         \* ref: the current run identifier
  timer,                \* the pending setTimeout(run, 0) with its closure
  effectDeps,           \* dependencies the run effect last ran with
  runsStarted,          \* history: number of runs started
  lastRun               \* history: the run callback that executed last

propVars == <<demandEvents, supplyVehicles, multiplierData, basePrice,
              snapshotTime, timeframeMinutes, normalizationEnabled,
              snapshotRange>>
snapVars == <<activeHexagons, inactiveHexagons, gridDiskThrows,
              snapshotEntries, mapV2, heatmap>>
priceVars == <<priceRatio, priceOut, priceOutMap>>
timesVars == <<rangeFrom, rangeTo, times, loopT, sweepPc>>
histVars == <<histEntries, histogramData>>
draftVars == <<draftFromValue, draftToValue, draftStepMinutes, draftBins>>
appliedVars == <<fromValue, toValue, stepMinutes, bins>>
runVars == <<minTime, maxTime, draftVars, fromValue, toValue, recalcNonce,
             distributionResult, isCalculating, calcRunIdRef, timer,
             effectDeps, runsStarted, lastRun>>
vars == <<propVars, snapVars, priceVars, timesVars, histVars, stepMinutes,
          bins, runVars>>

----------------------------------------------------------------------------
(* Exact numbers *)

Abs(i) == IF i < 0 THEN -i ELSE i

Sgn(i) == IF i < 0 THEN -1 ELSE IF i > 0 THEN 1 ELSE 0

RECURSIVE GCD(_, _)
GCD(a, b) == IF b = 0 THEN a ELSE GCD(b, a % b)

\* the rational n/d, d # 0, in lowest terms with a positive denominator
Rat(n, d) ==
  LET g == GCD(Abs(n), Abs(d))
      s == IF d < 0 THEN -1 ELSE 1
  IN [sq |-> FALSE, n |-> s * (n \div g), d |-> Abs(d) \div g]

FromInt(i) == Rat(i, 1)

\* a value no computation produces: marks an output not computed yet
NoNum == [sq |-> FALSE, n |-> 0, d |-> 0]

RAdd(x, y) == Rat(x.n * y.d + y.n * x.d, x.d * y.d)
RSub(x, y) == Rat(x.n * y.d - y.n * x.d, x.d * y.d)
RMul(x, y) == Rat(x.n * y.n, x.d * y.d)
RDiv(x, y) == Rat(x.n * y.d, x.d * y.n)
RLess(x, y) == x.n * y.d < y.n * x.d

\* the double +Infinity: RMul by a positive rational gives Infinity again
Infinity == [sq |-> FALSE, n |-> 1, d |-> 0]

\* Number.isFinite
isFinite(x) == x.d # 0

\* safeNumber: Number(n), and 0 in place of a value that is not finite
safeNumber(n) == IF isFinite(n) THEN n ELSE FromInt(0)

\* a / sqrt(v) for rationals a and v > 0, as sgn(a) * sqrt(a^2 / v)
DivSqrt(a, v) ==
  LET q == RDiv(RMul(a, a), v)
  IN [sq |-> TRUE, n |-> Sgn(a.n) * q.n, d |-> q.d]

RECURSIVE Pow(_, _)
Pow(b, e) == IF e = 0 THEN 1 ELSE b * Pow(b, e - 1)

\* Math.log(a) / Math.log(b) for integers a, b >= 2, a # b: kept as the pair
LogQuotient(a, b) == [sq |-> FALSE, lg |-> TRUE, n |-> a, d |-> b]

IsLogQuotient(x) == "lg" \in DOMAIN x

\* log(a) / log(b) >= p/q  iff  p <= 0 or a^q >= b^p
LogGEq(x, m) == m.n <= 0 \/ Pow(x.n, m.d) >= Pow(x.d, m.n)

\* x >= m for a number x and a rational m
GEq(x, m) ==
  IF IsLogQuotient(x) THEN LogGEq(x, m)
  ELSE IF ~x.sq THEN x.n * m.d >= m.n * x.d
  ELSE IF x.n >= 0
       THEN m.n <= 0 \/ x.n * m.d * m.d >= m.n * m.n * x.d
       ELSE m.n < 0 /\ (-x.n) * m.d * m.d <= m.n * m.n * x.d

----------------------------------------------------------------------------
(* Pricing resolver *)

\* Array.prototype.sort with comparator (a, b) => b.minRatio - a.minRatio:
\* a stable sort, descending by minRatio, of a copy of the table
RECURSIVE InsertDesc(_, _)
InsertDesc(sorted, e) ==
  IF sorted = <<>> THEN <<e>>
  ELSE IF RLess(Head(sorted).minRatio, e.minRatio)
       THEN <<e>> \o sorted
       ELSE <<Head(sorted)>> \o InsertDesc(Tail(sorted), e)

\* no sort: the table scanned in the order supplied
SortDescNone(table) == table

RECURSIVE SortDesc(_)
SortDesc(table) ==
  IF table = <<>> THEN <<>>
  ELSE InsertDesc(SortDesc(SubSeq(table, 1, Len(table) - 1)), table[Len(table)])

\* for (const entry of sorted) if (ratio >= entry.minRatio) return entry.multiplier
RECURSIVE FirstMatch(_, _, _)
FirstMatch(sorted, ratio, fallback) ==
  IF sorted = <<>> THEN fallback
  ELSE IF GEq(ratio, Head(sorted).minRatio) THEN Head(sorted).multiplier
       ELSE FirstMatch(Tail(sorted), ratio, fallback)

\* sorted[sorted.length - 1]?.multiplier ?? 1
LastOrOne(sorted) == sorted[Len(sorted)].multiplier

\* sorted[sorted.length - 1]?.multiplier || 1 : a zero multiplier is falsy
LastOrOneFalsy(sorted) ==
  IF sorted[Len(sorted)].multiplier.n = 0 THEN FromInt(1)
  ELSE sorted[Len(sorted)].multiplier

\* getMultiplier of the distribution view
getMultiplier(table, ratio) ==
  IF Len(table) = 0 THEN FromInt(1)
  ELSE LET sorted == SortDesc(table)
       IN FirstMatch(sorted, ratio, LastOrOne(sorted))

\* getMultiplier of the map
getMultiplierMap(table, ratio) ==
  IF Len(table) = 0 THEN FromInt(1)
  ELSE LET sorted == SortDesc(table)
       IN FirstMatch(sorted, ratio, LastOrOneFalsy(sorted))

----------------------------------------------------------------------------
(* Hex indexer (h3-js), temporal filter, spatial aggregator *)

\* ticks in a minute: the code's 60 * 1000, scaled down
MinuteMs == 2

\* latLngToCell(latitude, longitude, hexagonResolution) at the fixed resolution:
\* points 1 and 2 lie in cell 1, point 3 in cell 2
latLngToCell(loc) == (loc + 1) \div 2

\* filteredDemand with the start of the window left out of it
filteredDemandAfter(events, t, timeframe) ==
  LET windowStart == t - timeframe * MinuteMs
      Active(e) == e.timestamp > windowStart /\ e.timestamp <= t
  IN SelectSeq(events, Active)

\* filteredDemand: events with windowStart <= timestamp <= snapshotTime
filteredDemand(events, t, timeframe) ==
  LET windowStart == t - timeframe * MinuteMs
      Active(e) == e.timestamp >= windowStart /\ e.timestamp <= t
  IN SelectSeq(events, Active)

\* availableSupply: vehicles with startTime <= snapshotTime <= endTime
availableSupply(vehicles, t) ==
  LET Active(v) == v.startTime <= t /\ v.endTime >= t
  IN SelectSeq(vehicles, Active)

\* the cell of every record, in array order
RECURSIVE CellsOf(_)
CellsOf(records) ==
  IF records = <<>> THEN <<>>
  ELSE <<latLngToCell(Head(records).loc)>> \o CellsOf(Tail(records))

\* the count of a loop that sets 1 where the code adds 1
CountOfPresent(cells, hexId) ==
  IF \E i \in DOMAIN cells : cells[i] = hexId THEN 1 ELSE 0

\* Map.get(hexId) || 0 after the counting loop
CountOf(cells, hexId) == Cardinality({i \in DOMAIN cells : cells[i] = hexId})

\* Set.add in a loop: insertion order, no duplicates
RECURSIVE AddAll(_, _)
AddAll(order, cells) ==
  IF cells = <<>> THEN order
  ELSE IF \E i \in DOMAIN order : order[i] = Head(cells)
       THEN AddAll(order, Tail(cells))
       ELSE AddAll(Append(order, Head(cells)), Tail(cells))

\* allHexIds with the add of the supply loop left out
allHexIdsOfDemand(demandCells, supplyCells) == AddAll(<<>>, demandCells)

\* allHexIds: demand cells first, then supply cells
allHexIds(demandCells, supplyCells) == AddAll(AddAll(<<>>, demandCells), supplyCells)

----------------------------------------------------------------------------
(* Ratio engine *)

\* computeRawRatio(journeys, vehicles)
computeRawRatio(journeys, vehicles) ==
  IF vehicles = 0 THEN (IF journeys > 0 THEN FromInt(1) ELSE FromInt(0))
  ELSE Rat(journeys, vehicles)

\* Welford's algorithm over the raw ratios of allHexIds, in iteration order
RECURSIVE Welford(_, _, _, _)
Welford(acc, order, demandCells, supplyCells) ==
  IF order = <<>> THEN acc
  ELSE LET raw == computeRawRatio(CountOf(demandCells, Head(order)),
                                  CountOf(supplyCells, Head(order)))
           n == acc.n + 1
           delta == RSub(raw, acc.mean)
           mean == RAdd(acc.mean, RDiv(delta, FromInt(n)))
           delta2 == RSub(raw, mean)
           m2 == RAdd(acc.m2, RMul(delta, delta2))
       IN Welford([n |-> n, mean |-> mean, m2 |-> m2], Tail(order),
                  demandCells, supplyCells)

WelfordInit == [n |-> 0, mean |-> FromInt(0), m2 |-> FromInt(0)]

\* stdDev squared with the population denominator: m2 / n
VariancePopulation(acc) ==
  IF acc.n > 1 THEN RDiv(acc.m2, FromInt(acc.n)) ELSE FromInt(0)

\* stdDev squared: n > 1 ? m2 / (n - 1) : 0  (stdDev is its square root)
Variance(acc) == IF acc.n > 1 THEN RDiv(acc.m2, FromInt(acc.n - 1)) ELSE FromInt(0)

\* computeZScore(value, mean, stdDev) of the map: 0 when stdDev === 0
computeZScore(value, mean, variance) ==
  IF variance.n = 0 THEN FromInt(0)
  ELSE DivSqrt(RSub(value, mean), variance)

\* the distribution view's ratio: normalizationEnabled && stdDev > 0 ? z : raw
ratioOfEntries(raw, mean, variance, normalization) ==
  IF normalization /\ variance.n > 0 THEN DivSqrt(RSub(raw, mean), variance)
  ELSE raw

----------------------------------------------------------------------------
(* Snapshot composer of the map: the activeHexagons useMemo *)

\* one record of hexMap, computed in the second allHexIds.forEach
hexRecord(hexId, demandCells, supplyCells, table, price, normalization) ==
  LET demand == CountOf(demandCells, hexId)
      supply == CountOf(supplyCells, hexId)
      \* demandMap.size > 0 && supplyMap.size > 0
      hasBothData == Len(demandCells) > 0 /\ Len(supplyCells) > 0
      hasDemandOnly == Len(demandCells) > 0 /\ Len(supplyCells) = 0
      hasMultiplier == Len(table) > 0
      acc == Welford(WelfordInit, allHexIds(demandCells, supplyCells),
                     demandCells, supplyCells)
      raw == computeRawRatio(demand, supply)
      ratio == IF hasBothData
               THEN (IF normalization
                     THEN computeZScore(raw, acc.mean, Variance(acc))
                     ELSE raw)
               ELSE IF hasDemandOnly THEN FromInt(demand)
               ELSE FromInt(0)
      finalPrice == IF hasBothData /\ hasMultiplier /\ price.n > 0
                    THEN RMul(getMultiplierMap(table, ratio), price)
                    ELSE FromInt(0)
  IN [hexId |-> hexId, ratio |-> ratio, demand |-> demand, supply |-> supply,
      finalPrice |-> finalPrice]

\* Array.from(hexMap.values()): one record per member of allHexIds
computeActiveHexagons(events, vehicles, table, price, t, timeframe, normalization) ==
  LET demandCells == CellsOf(filteredDemand(events, t, timeframe))
      supplyCells == CellsOf(availableSupply(vehicles, t))
      order == allHexIds(demandCells, supplyCells)
  IN [i \in DOMAIN order |->
        hexRecord(order[i], demandCells, supplyCells, table, price, normalization)]

\* cells are numbered by axial coordinates, q + RowStride * r
RowStride == 10

\* gridDisk(hexId, 1): the cell itself and the six cells that touch it
gridDisk(hexId) ==
  <<hexId, hexId + 1, hexId - 1, hexId + RowStride, hexId - RowStride,
    hexId + RowStride - 1, hexId - RowStride + 1>>

\* the try block with a lookup that never throws
tryGridDiskNoThrow(hexId, throws) == gridDisk(hexId)

\* try { neighbors = gridDisk(hexId, 1); ... } catch { }: the neighbours the
\* forEach of the try block visits, none when the lookup throws
tryGridDisk(hexId, throws) ==
  IF hexId \in throws THEN <<>> ELSE gridDisk(hexId)

\* the halo filter with the test against the active cells left out
outsideAny(neighbors, activeHexIds) == neighbors

\* the neighbours that pass if (!activeHexIds.has(neighborId))
outsideActive(neighbors, activeHexIds) ==
  LET Outside(neighborId) == \A i \in DOMAIN activeHexIds :
                                activeHexIds[i] # neighborId
  IN SelectSeq(neighbors, Outside)

\* activeHexIds.forEach over the cells left to visit: inactiveSet.add of the
\* neighbours outside the active cells
RECURSIVE inactiveSet(_, _, _, _)
inactiveSet(added, toVisit, activeHexIds, throws) ==
  IF toVisit = <<>> THEN added
  ELSE inactiveSet(AddAll(added, outsideActive(tryGridDisk(Head(toVisit), throws),
                                               activeHexIds)),
                   Tail(toVisit), activeHexIds, throws)

\* one record of the inactive array
inactiveRecord(hexId) ==
  [hexId |-> hexId, ratio |-> FromInt(0), demand |-> 0, supply |-> 0,
   finalPrice |-> FromInt(0)]

\* Array.from(inactiveSet).map(...): the halo of the active cells
computeInactiveHexagons(events, vehicles, t, timeframe, throws) ==
  LET demandCells == CellsOf(filteredDemand(events, t, timeframe))
      supplyCells == CellsOf(availableSupply(vehicles, t))
      activeHexIds == allHexIds(demandCells, supplyCells)
      inactive == inactiveSet(<<>>, activeHexIds, activeHexIds, throws)
  IN [i \in DOMAIN inactive |-> inactiveRecord(inactive[i])]

----------------------------------------------------------------------------
(* The map with the log ratio and the snapshot validity check             *)
(* (HexagonMap.tsx, second variant)                                        *)

\* computeLogRatio(journeys, vehicles): log(journeys + 1) / log(vehicles + 1),
\* Infinity when log(vehicles + 1) === 0; log(1) is 0 and x / x is 1
computeLogRatio(journeys, vehicles) ==
  IF vehicles = 0 THEN Infinity
  ELSE IF journeys = 0 THEN FromInt(0)
  ELSE IF journeys = vehicles THEN FromInt(1)
  ELSE LogQuotient(journeys + 1, vehicles + 1)

\* the both-data ratio with the supply === 0 test left out
cellLogRatioUnguarded(demand, supply) == computeLogRatio(demand, supply)

\* the both-data ratio of a cell: supply === 0 ? (demand > 0 ? 1 : 0)
\*                                             : computeLogRatio(demand, supply)
cellLogRatio(demand, supply) ==
  IF supply = 0 THEN (IF demand > 0 THEN FromInt(1) ELSE FromInt(0))
  ELSE computeLogRatio(demand, supply)

\* getMultiplier of this map: the last rule's multiplier below every threshold
getMultiplierV2(table, ratio) ==
  IF Len(table) = 0 THEN FromInt(1)
  ELSE LET sorted == SortDesc(table)
       IN FirstMatch(sorted, ratio, sorted[Len(sorted)].multiplier)

\* one record of hexMap set in allHexIds.forEach; finalPrice is undefined
\* (NoNum) unless hasBothData && hasMultiplier
hexRecordV2(hexId, demandCells, supplyCells, table, price) ==
  LET demand == CountOf(demandCells, hexId)
      supply == CountOf(supplyCells, hexId)
      hasBothData == Len(demandCells) > 0 /\ Len(supplyCells) > 0
      hasDemandOnly == Len(demandCells) > 0 /\ Len(supplyCells) = 0
      hasSupplyOnly == Len(supplyCells) > 0 /\ Len(demandCells) = 0
      hasMultiplier == Len(table) > 0
      ratio == IF hasBothData THEN cellLogRatio(demand, supply)
               ELSE IF hasDemandOnly THEN FromInt(demand)
               ELSE IF hasSupplyOnly THEN FromInt(supply)
               ELSE FromInt(0)
      finalPrice == IF hasBothData /\ hasMultiplier /\ price.n > 0
                    THEN RMul(getMultiplierV2(table, ratio), price)
                    ELSE FromInt(0)
  IN [hexId |-> hexId, ratio |-> ratio, sumDemand |-> demand,
      sumSupply |-> supply,
      finalPrice |-> IF hasBothData /\ hasMultiplier THEN finalPrice ELSE NoNum]

\* one record of this map's inactive array: { hexId, ratio: 0, center }
inactiveRecordV2(hexId) == [hexId |-> hexId, ratio |-> FromInt(0)]

\* the useMemo of this map: the halo, a record per member of allHexIds, then
\* every inactive record not yet in hexMap set into hexMap as well;
\* activeHexagons is Array.from(hexMap.values())
computeHexagonsV2(events, vehicles, table, price, t, timeframe, throws) ==
  LET demandCells == CellsOf(filteredDemand(events, t, timeframe))
      supplyCells == CellsOf(availableSupply(vehicles, t))
      order == allHexIds(demandCells, supplyCells)
      halo == inactiveSet(<<>>, order, order, throws)
      inactive == [i \in DOMAIN halo |-> inactiveRecordV2(halo[i])]
      counted == [i \in DOMAIN order |->
                    hexRecordV2(order[i], demandCells, supplyCells, table, price)]
      NotYetSet(hex) == \A i \in DOMAIN counted : counted[i].hexId # hex.hexId
  IN [activeHexagons |-> counted \o SelectSeq(inactive, NotYetSet),
      inactiveHexagons |-> inactive]

\* the stops used when the heatmap prop is empty
DefaultHeatmap ==
  <<[ratio |-> FromInt(0), color |-> <<0, 0, 255>>],
    [ratio |-> Rat(1, 2), color |-> <<0, 255, 0>>],
    [ratio |-> FromInt(1), color |-> <<255, 0, 0>>]>>

\* sort((a, b) => a.ratio - b.ratio) is stable: a stop goes behind the stops
\* of the same ratio that precede it
RECURSIVE InsertAsc(_, _)
InsertAsc(sorted, stop) ==
  IF sorted = <<>> THEN <<stop>>
  ELSE IF RLess(stop.ratio, sorted[Len(sorted)].ratio)
       THEN Append(InsertAsc(SubSeq(sorted, 1, Len(sorted) - 1), stop),
                   sorted[Len(sorted)])
       ELSE Append(sorted, stop)

RECURSIVE SortAsc(_)
SortAsc(stops) ==
  IF stops = <<>> THEN <<>>
  ELSE InsertAsc(SortAsc(SubSeq(stops, 1, Len(stops) - 1)), stops[Len(stops)])

\* the colorScale useMemo: heatmapToUse.sort(...) returns the array it sorted
colorScale(stops) ==
  SortAsc(IF Len(stops) > 0 THEN stops ELSE DefaultHeatmap)

\* the array of the heatmap prop after the colorScale useMemo: heatmapToUse is
\* the prop's array when it has stops, and Array.prototype.sort sorts in place
heatmapAfterColorScale(stops) ==
  IF Len(stops) > 0 THEN SortAsc(stops) ELSE stops

\* null or undefined where the code holds a SnapshotRange
NoRange == [minTime |-> 0 - 1]

MinOf(S) == CHOOSE x \in S : \A y \in S : x <= y
MaxOf(S) == CHOOSE x \in S : \A y \in S : x >= y

\* calculatedTimeRange: null without records, else the least and the greatest
\* of the demand timestamps and the supply start and end times
calculatedTimeRange(events, vehicles) ==
  LET ts == {events[i].timestamp : i \in DOMAIN events}
              \cup {vehicles[i].startTime : i \in DOMAIN vehicles}
              \cup {vehicles[i].endTime : i \in DOMAIN vehicles}
  IN IF ts = {} THEN NoRange
     ELSE [minTime |-> MinOf(ts), maxTime |-> MaxOf(ts)]

\* isTimeInRange(time): reads the snapshotRange prop only
isTimeInRange(time, range) ==
  IF range = NoRange THEN TRUE
  ELSE time >= range.minTime /\ time <= range.maxTime

\* isSnapshotValid: range = snapshotRange || calculatedTimeRange;
\* if (!range) return true; return isTimeInRange(snapshotTime)
isSnapshotValid(t, range, calculated) ==
  LET applicable == IF range # NoRange THEN range ELSE calculated
  IN IF applicable = NoRange THEN TRUE ELSE isTimeInRange(t, range)

----------------------------------------------------------------------------
(* Snapshot composer of the distribution view *)

\* the mode with a canShowPrice that leaves out basePrice > 0
distributionModeAnyPrice(events, vehicles, table, price) ==
  LET hasDemand == Len(events) > 0
      hasSupply == Len(vehicles) > 0
      hasBoth == hasDemand /\ hasSupply
  IN IF hasBoth /\ Len(table) > 0 THEN "price"
     ELSE IF hasBoth THEN "coefficient"
     ELSE IF hasDemand THEN "demand"
     ELSE IF hasSupply THEN "supply"
     ELSE "coefficient"

\* the mode useMemo
distributionMode(events, vehicles, table, price) ==
  LET hasDemand == Len(events) > 0
      hasSupply == Len(vehicles) > 0
      hasBoth == hasDemand /\ hasSupply
      canShowPrice == hasBoth /\ Len(table) > 0 /\ price.n > 0
  IN IF canShowPrice THEN "price"
     ELSE IF hasBoth THEN "coefficient"
     ELSE IF hasDemand THEN "demand"
     ELSE IF hasSupply THEN "supply"
     ELSE "coefficient"

\* the one-sided value with the two counts swapped
oneSidedEntrySwapped(mode, hexId, demand, supply) ==
  IF mode = "demand" THEN <<[value |-> FromInt(supply), hexId |-> hexId]>>
  ELSE IF mode = "supply" THEN <<[value |-> FromInt(demand), hexId |-> hexId]>>
  ELSE <<>>

\* the value pushed for one cell when !hasBoth; <<>> when nothing is pushed
oneSidedEntry(mode, hexId, demand, supply) ==
  IF mode = "demand" THEN <<[value |-> FromInt(demand), hexId |-> hexId]>>
  ELSE IF mode = "supply" THEN <<[value |-> FromInt(supply), hexId |-> hexId]>>
  ELSE <<>>

RECURSIVE oneSidedEntries(_, _, _, _)
oneSidedEntries(mode, order, demandCells, supplyCells) ==
  IF order = <<>> THEN <<>>
  ELSE oneSidedEntry(mode, Head(order), CountOf(demandCells, Head(order)),
                     CountOf(supplyCells, Head(order)))
       \o oneSidedEntries(mode, Tail(order), demandCells, supplyCells)

\* the value pushed for one cell when hasBoth
bothEntry(mode, hexId, demandCells, supplyCells, acc, table, price, normalization) ==
  LET raw == computeRawRatio(CountOf(demandCells, hexId), CountOf(supplyCells, hexId))
      ratio == ratioOfEntries(raw, acc.mean, Variance(acc), normalization)
  IN IF mode = "price"
     THEN [value |-> RMul(getMultiplier(table, ratio), price), hexId |-> hexId]
     ELSE [value |-> ratio, hexId |-> hexId]

\* computeSnapshotEntries(snapshotTime)
computeSnapshotEntries(events, vehicles, table, price, t, timeframe, normalization) ==
  LET hasDemand == Len(events) > 0
      hasSupply == Len(vehicles) > 0
      demandCells == IF hasDemand THEN CellsOf(filteredDemand(events, t, timeframe))
                     ELSE <<>>
      supplyCells == IF hasSupply THEN CellsOf(availableSupply(vehicles, t))
                     ELSE <<>>
      order == allHexIds(demandCells, supplyCells)
      mode == distributionMode(events, vehicles, table, price)
      acc == Welford(WelfordInit, order, demandCells, supplyCells)
  IN IF Len(order) = 0 THEN <<>>
     ELSE IF ~(hasDemand /\ hasSupply)
          THEN oneSidedEntries(mode, order, demandCells, supplyCells)
          ELSE [i \in DOMAIN order |->
                  bothEntry(mode, order[i], demandCells, supplyCells, acc,
                            table, price, normalization)]

----------------------------------------------------------------------------
(* Input domains *)

MaxEvents == 2      \* longest demand array
MaxVehicles == 1    \* longest supply array
MaxRules == 3       \* longest multiplier table of a pricing lookup

Instants == {0, 2, 4}
Locs == {1, 2, 3}

SeqsUpTo(S, n) == UNION {[1..k -> S] : k \in 0..n}

DemandKinds == [timestamp : Instants, loc : Locs]
SupplyKinds == [startTime : {0}, endTime : {2}, loc : {1}]
                 \cup [startTime : {2}, endTime : {4}, loc : {1, 3}]

Rule(minRatio, multiplier) == [minRatio |-> minRatio, multiplier |-> multiplier]

\* a table supplied in ascending order, so that the lookup has to sort it
SnapTable == <<Rule(FromInt(0), FromInt(1)), Rule(FromInt(1), FromInt(2))>>

BasePrices == {FromInt(0), FromInt(3)}

\* demand arrays in chronological order, supply arrays in any order
DemandArrays ==
  {s \in SeqsUpTo(DemandKinds, MaxEvents) :
     \A i, j \in DOMAIN s : i < j => s[i].timestamp <= s[j].timestamp}
SupplyArrays == SeqsUpTo(SupplyKinds, MaxVehicles)

\* outputs before the first computation
NotRendered == <<[hexId |-> 0]>>

IdlePrice == priceRatio = NoNum /\ priceOut = NoNum /\ priceOutMap = NoNum

\* null where the code holds a Date | null
NoTime == 0 - 1

\* the output of the map with the validity check before its first render
NotRenderedV2 == [isSnapshotValid |-> FALSE]

\* the empty string of an unset datetime-local field
NoValue == 0 - 2

NoTimes == <<NoTime>>
NotBinned == <<[count |-> 0 - 1]>>
NoTimer == [runId |-> 0]
NoRun == [runId |-> 0, committed |-> FALSE]
Unmounted == [recalcNonce |-> 0 - 1]

\* DistributionView's initial state: no result, not calculating
EmptyResult ==
  [values |-> <<>>, entries |-> <<>>, effectiveFrom |-> NoTime,
   effectiveTo |-> NoTime]

IdleProps ==
  /\ demandEvents = <<>>
  /\ supplyVehicles = <<>>
  /\ multiplierData = <<>>
  /\ basePrice = FromInt(0)
  /\ snapshotTime = 0
  /\ snapshotRange = NoRange
  /\ timeframeMinutes = 1
  /\ normalizationEnabled = FALSE

\* gridDisk returns for every cell: the cells come from latLngToCell
IdleSnap ==
  /\ activeHexagons = NotRendered
  /\ inactiveHexagons = NotRendered
  /\ gridDiskThrows = {}
  /\ snapshotEntries = NotRendered
  /\ mapV2 = NotRenderedV2
  /\ heatmap = <<>>

IdleSweep == loopT = NoTime /\ sweepPc = "idle"

IdleTimes == rangeFrom = 0 /\ rangeTo = 0 /\ times = NoTimes /\ IdleSweep

IdleHist == histEntries = <<>> /\ histogramData = NotBinned

IdleRun ==
  /\ minTime = NoTime /\ maxTime = NoTime
  /\ draftFromValue = NoValue /\ draftToValue = NoValue
  /\ draftStepMinutes = 15 /\ draftBins = 20
  /\ fromValue = NoValue /\ toValue = NoValue
  /\ recalcNonce = 0
  /\ distributionResult = EmptyResult
  /\ isCalculating = FALSE
  /\ calcRunIdRef = 0
  /\ timer = NoTimer
  /\ effectDeps = Unmounted
  /\ runsStarted = 0
  /\ lastRun = NoRun

IdleApplied == stepMinutes = 15 /\ bins = 20

----------------------------------------------------------------------------
(* SpecSnap: one snapshot of the map and of the distribution view *)

InitSnap ==
  /\ demandEvents \in DemandArrays
  /\ supplyVehicles \in SupplyArrays
  /\ multiplierData \in {<<>>, SnapTable}
  /\ basePrice \in BasePrices
  /\ snapshotTime \in Instants
  /\ snapshotRange = NoRange
  /\ timeframeMinutes = 1
  /\ normalizationEnabled \in BOOLEAN
  /\ IdleSnap /\ IdlePrice /\ IdleTimes /\ IdleHist /\ IdleApplied /\ IdleRun

\* HexagonMap renders: the activeHexagons useMemo runs
RenderMap ==
  /\ activeHexagons' = computeActiveHexagons(demandEvents, supplyVehicles,
                         multiplierData, basePrice, snapshotTime, timeframeMinutes,
                         normalizationEnabled)
  /\ inactiveHexagons' = computeInactiveHexagons(demandEvents, supplyVehicles,
                           snapshotTime, timeframeMinutes, gridDiskThrows)
  /\ UNCHANGED <<propVars, gridDiskThrows, snapshotEntries, mapV2, heatmap,
                 priceVars, timesVars, histVars, stepMinutes, bins, runVars>>

\* the distribution view samples the instant snapshotTime
SampleSnapshot ==
  /\ snapshotEntries' = computeSnapshotEntries(demandEvents, supplyVehicles,
                          multiplierData, basePrice, snapshotTime, timeframeMinutes,
                          normalizationEnabled)
  /\ UNCHANGED <<propVars, activeHexagons, inactiveHexagons, gridDiskThrows,
                 mapV2, heatmap, priceVars, timesVars, histVars, stepMinutes,
                 bins, runVars>>

\* the map with the validity check renders: its useMemo hooks run and DeckGL
\* receives the hexagon layer, or no layer when the snapshot is not valid
RenderMapV2 ==
  /\ LET hexagons == computeHexagonsV2(demandEvents, supplyVehicles,
                        multiplierData, basePrice, snapshotTime,
                        timeframeMinutes, gridDiskThrows)
         valid == isSnapshotValid(snapshotTime, snapshotRange,
                    calculatedTimeRange(demandEvents, supplyVehicles))
     IN mapV2' = [isSnapshotValid |-> valid,
                  activeHexagons |-> hexagons.activeHexagons,
                  inactiveHexagons |-> hexagons.inactiveHexagons,
                  colorScale |-> colorScale(heatmap),
                  layers |-> IF valid THEN <<hexagons.activeHexagons>>
                             ELSE <<>>]
  /\ heatmap' = heatmapAfterColorScale(heatmap)
  /\ UNCHANGED <<propVars, activeHexagons, inactiveHexagons, gridDiskThrows,
                 snapshotEntries, priceVars, timesVars, histVars, stepMinutes,
                 bins, runVars>>

NextSnap == RenderMap \/ SampleSnapshot

SpecSnap == InitSnap /\ [][NextSnap]_vars

----------------------------------------------------------------------------
(* SpecHalo: the map's snapshot when gridDisk throws for some cells *)

InitHalo ==
  /\ demandEvents \in DemandArrays
  /\ supplyVehicles \in SupplyArrays
  /\ multiplierData = SnapTable
  /\ basePrice = FromInt(3)
  /\ snapshotTime \in Instants
  /\ snapshotRange = NoRange
  /\ timeframeMinutes = 1
  /\ normalizationEnabled = FALSE
  /\ activeHexagons = NotRendered
  /\ inactiveHexagons = NotRendered
  /\ gridDiskThrows \in SUBSET {latLngToCell(l) : l \in Locs}
  /\ snapshotEntries = NotRendered
  /\ mapV2 = NotRenderedV2
  /\ heatmap = <<>>
  /\ IdlePrice /\ IdleTimes /\ IdleHist /\ IdleApplied /\ IdleRun

NextHalo == RenderMap

SpecHalo == InitHalo /\ [][NextHalo]_vars

----------------------------------------------------------------------------
(* SpecStats: normalised snapshots over up to four cells, all records     *)
(* active at the instant, in every array order                            *)

MaxStatEvents == 3    \* longest demand array
MaxStatVehicles == 2  \* longest supply array

\* one point in each of the cells 1..4
StatLocs == {1, 3, 5, 7}

StatDemandArrays ==
  SeqsUpTo([timestamp : {0}, loc : StatLocs], MaxStatEvents)

StatSupplyArrays ==
  SeqsUpTo([startTime : {0}, endTime : {2}, loc : StatLocs], MaxStatVehicles)

InitStats ==
  /\ demandEvents \in StatDemandArrays
  /\ supplyVehicles \in StatSupplyArrays
  /\ multiplierData = <<>>
  /\ basePrice = FromInt(0)
  /\ snapshotTime = 0
  /\ snapshotRange = NoRange
  /\ timeframeMinutes = 1
  /\ normalizationEnabled = TRUE
  /\ IdleSnap /\ IdlePrice /\ IdleTimes /\ IdleHist /\ IdleApplied /\ IdleRun

NextStats == RenderMap \/ SampleSnapshot

SpecStats == InitStats /\ [][NextStats]_vars

----------------------------------------------------------------------------
(* SpecMapV2: both maps render one snapshot; the parent passes a snapshot *)
(* range or none                                                          *)

MaxV2Events == 2      \* longest demand array
MaxV2Vehicles == 1    \* longest supply array

V2DemandArrays ==
  SeqsUpTo([timestamp : {0, 2}, loc : {1, 3}], MaxV2Events)

V2SupplyArrays ==
  SeqsUpTo([startTime : {0}, endTime : {2, 4}, loc : {1, 3}], MaxV2Vehicles)

V2Ranges ==
  {NoRange, [minTime |-> 0, maxTime |-> 2], [minTime |-> 2, maxTime |-> 4]}

InitMapV2 ==
  /\ demandEvents \in V2DemandArrays
  /\ supplyVehicles \in V2SupplyArrays
  /\ multiplierData \in {<<>>, SnapTable}
  /\ basePrice = FromInt(3)
  /\ snapshotTime \in Instants
  /\ snapshotRange \in V2Ranges
  /\ timeframeMinutes = 1
  /\ normalizationEnabled = FALSE
  /\ IdleSnap /\ IdlePrice /\ IdleTimes /\ IdleHist /\ IdleApplied /\ IdleRun

NextMapV2 == RenderMapV2 \/ RenderMap

SpecMapV2 == InitMapV2 /\ [][NextMapV2]_vars

----------------------------------------------------------------------------
(* SpecColors: the map with the validity check renders with a custom      *)
(* heatmap, its stops in any order                                        *)

MaxStops == 3  \* longest heatmap array

Stops ==
  {[ratio |-> FromInt(0), color |-> <<0, 0, 255>>],
   [ratio |-> Rat(1, 2), color |-> <<0, 255, 0>>],
   [ratio |-> FromInt(1), color |-> <<255, 0, 0>>],
   [ratio |-> FromInt(1), color |-> <<255, 255, 0>>]}

HeatmapArrays == SeqsUpTo(Stops, MaxStops)

InitColors ==
  /\ IdleProps
  /\ activeHexagons = NotRendered
  /\ inactiveHexagons = NotRendered
  /\ gridDiskThrows = {}
  /\ snapshotEntries = NotRendered
  /\ mapV2 = NotRenderedV2
  /\ heatmap \in HeatmapArrays
  /\ IdlePrice /\ IdleTimes /\ IdleHist /\ IdleApplied /\ IdleRun

NextColors == RenderMapV2

SpecColors == InitColors /\ [][NextColors]_vars

----------------------------------------------------------------------------
(* SpecPrice: the pricing lookup on its own, on tables in any order *)

Thresholds == {FromInt(0), Rat(1, 2), FromInt(1)}
Multipliers == {FromInt(0), FromInt(1), Rat(3, 2), FromInt(2)}
RuleKinds == [minRatio : Thresholds, multiplier : Multipliers]

\* ratios: rationals, and the z-scores 1/sqrt(2) and -1/sqrt(2)
Ratios ==
  {FromInt(0 - 5), FromInt(0), Rat(1, 2), Rat(7, 10), FromInt(10),
   DivSqrt(FromInt(1), FromInt(2)), DivSqrt(FromInt(0 - 1), FromInt(2))}

InitPrice ==
  /\ demandEvents = <<>>
  /\ supplyVehicles = <<>>
  /\ multiplierData \in SeqsUpTo(RuleKinds, MaxRules)
  /\ basePrice = FromInt(0)
  /\ snapshotTime = 0
  /\ snapshotRange = NoRange
  /\ timeframeMinutes = 1
  /\ normalizationEnabled = FALSE
  /\ priceRatio \in Ratios
  /\ priceOut = NoNum
  /\ priceOutMap = NoNum
  /\ IdleSnap /\ IdleTimes /\ IdleHist /\ IdleApplied /\ IdleRun

\* the distribution view resolves the multiplier of priceRatio
LookupDistribution ==
  /\ priceOut' = getMultiplier(multiplierData, priceRatio)
  /\ UNCHANGED <<propVars, snapVars, priceRatio, priceOutMap, timesVars,
                 histVars, stepMinutes, bins, runVars>>

\* the map resolves the multiplier of priceRatio
LookupMap ==
  /\ priceOutMap' = getMultiplierMap(multiplierData, priceRatio)
  /\ UNCHANGED <<propVars, snapVars, priceRatio, priceOut, timesVars,
                 histVars, stepMinutes, bins, runVars>>

NextPrice == LookupDistribution \/ LookupMap

SpecPrice == InitPrice /\ [][NextPrice]_vars

----------------------------------------------------------------------------
(* Sample instants of a distribution run *)

\* the step without Math.max: stepMinutes * 60 * 1000
stepMsRaw(minutes) == minutes * MinuteMs

\* Math.max(1, stepMinutes) * 60 * 1000
stepMsOf(minutes) == (IF minutes > 1 THEN minutes ELSE 1) * MinuteMs

\* the loop with t <= to
RECURSIVE FillTimesInclusive(_, _, _)
FillTimesInclusive(t, to, stepMs) ==
  IF t <= to THEN <<t>> \o FillTimesInclusive(t + stepMs, to, stepMs) ELSE <<>>

\* for (let t = from + stepMs; t < to; t += stepMs) times.push(t)
RECURSIVE FillTimes(_, _, _)
FillTimes(t, to, stepMs) ==
  IF t < to THEN <<t>> \o FillTimes(t + stepMs, to, stepMs) ELSE <<>>

\* times of a run over the clamped range from <= to
sampleTimes(from, to, minutes) ==
  <<from>> \o FillTimes(from + stepMsOf(minutes), to, stepMsOf(minutes))
           \o (IF to # from THEN <<to>> ELSE <<>>)

\* the options of the step select
StepOptions == {5, 15, 30, 60}

MaxStart == 3          \* latest range start, ticks
MaxRangeMinutes == 40  \* longest range, minutes

InitTimes ==
  /\ IdleProps /\ IdleSnap /\ IdlePrice /\ IdleHist /\ IdleRun
  /\ rangeFrom \in 0..MaxStart
  /\ rangeTo \in rangeFrom..(rangeFrom + MaxRangeMinutes * MinuteMs)
  /\ stepMinutes \in StepOptions
  /\ bins = 20
  /\ times = NoTimes
  /\ IdleSweep

\* a run lists its sample instants
SampleTimes ==
  /\ times' = sampleTimes(rangeFrom, rangeTo, stepMinutes)
  /\ UNCHANGED <<propVars, snapVars, priceVars, rangeFrom, rangeTo, loopT,
                 sweepPc, histVars,
                 stepMinutes, bins, runVars>>

NextTimes == SampleTimes

SpecTimes == InitTimes /\ [][NextTimes]_vars

----------------------------------------------------------------------------
(* SpecSweep: run() building times statement by statement, for any integer *)
(* step. The select offers 5, 15, 30 and 60 only; Math.max(1, stepMinutes) *)
(* is there for the other values of a number.                               *)

\* steps a number can hold besides those of the select
SweepSteps == {0 - 5, 0 - 1, 0, 1, 5}

MaxSweepMinutes == 6  \* longest range of a sweep, minutes

InitSweep ==
  /\ IdleProps /\ IdleSnap /\ IdlePrice /\ IdleHist /\ IdleRun
  /\ rangeFrom \in 0..MaxStart
  /\ rangeTo \in (rangeFrom - MinuteMs)..(rangeFrom + MaxSweepMinutes * MinuteMs)
  /\ stepMinutes \in SweepSteps
  /\ bins = 20
  /\ times = NoTimes
  /\ loopT = NoTime
  /\ sweepPc = "run"

SweepFrame ==
  UNCHANGED <<propVars, snapVars, priceVars, rangeFrom, rangeTo, histVars,
              stepMinutes, bins, runVars>>

\* if (from.getTime() > to.getTime()) { ...; return; }
SweepEmpty ==
  /\ sweepPc = "run"
  /\ rangeFrom > rangeTo
  /\ times' = <<>>
  /\ sweepPc' = "done"
  /\ UNCHANGED loopT
  /\ SweepFrame

\* times.push(from.getTime()); let t = from.getTime() + stepMs
SweepStart ==
  /\ sweepPc = "run"
  /\ ~(rangeFrom > rangeTo)
  /\ times' = <<rangeFrom>>
  /\ loopT' = rangeFrom + stepMsOf(stepMinutes)
  /\ sweepPc' = "loop"
  /\ SweepFrame

\* t < to.getTime(): times.push(t); t += stepMs
SweepLoop ==
  /\ sweepPc = "loop"
  /\ loopT < rangeTo
  /\ times' = Append(times, loopT)
  /\ loopT' = loopT + stepMsOf(stepMinutes)
  /\ UNCHANGED sweepPc
  /\ SweepFrame

\* the loop test fails: if (to.getTime() !== from.getTime()) times.push(to)
SweepEnd ==
  /\ sweepPc = "loop"
  /\ ~(loopT < rangeTo)
  /\ times' = IF rangeTo # rangeFrom THEN Append(times, rangeTo) ELSE times
  /\ sweepPc' = "done"
  /\ UNCHANGED loopT
  /\ SweepFrame

NextSweep == SweepEmpty \/ SweepStart \/ SweepLoop \/ SweepEnd

\* run() is one synchronous call: a statement that can execute does
SpecSweep == InitSweep /\ [][NextSweep]_vars /\ WF_vars(NextSweep)

----------------------------------------------------------------------------
(* Histogram of the distribution view *)

\* Math.max(5, Math.min(60, Math.round(bins))); bins is an integer
nBinsOf(b) ==
  LET capped == IF b < 60 THEN b ELSE 60
  IN IF capped > 5 THEN capped ELSE 5

\* the scan for min (for max with RLess swapped) over the finite values
RECURSIVE MinValue(_)
MinValue(entries) ==
  IF Len(entries) = 1 THEN entries[1].value
  ELSE LET m == MinValue(Tail(entries))
       IN IF RLess(entries[1].value, m) THEN entries[1].value ELSE m

RECURSIVE MaxValue(_)
MaxValue(entries) ==
  IF Len(entries) = 1 THEN entries[1].value
  ELSE LET m == MaxValue(Tail(entries))
       IN IF RLess(m, entries[1].value) THEN entries[1].value ELSE m

\* Math.ceil in the place of Math.floor
CeilBin(value, min, max, nBins) ==
  LET q == RDiv(RSub(value, min), RDiv(RSub(max, min), FromInt(nBins)))
  IN -((-q.n) \div q.d)

\* Math.floor((value - min) / width), width = (max - min) / nBins
FloorBin(value, min, max, nBins) ==
  LET q == RDiv(RSub(value, min), RDiv(RSub(max, min), FromInt(nBins)))
  IN q.n \div q.d

\* the bin index without the clamps
binIndexUnclamped(value, min, max, nBins) == FloorBin(value, min, max, nBins)

\* Math.min(nBins - 1, Math.max(0, Math.floor((value - min) / width)))
binIndex(value, min, max, nBins) ==
  LET f == FloorBin(value, min, max, nBins)
      lo == IF f > 0 THEN f ELSE 0
  IN IF lo < nBins - 1 THEN lo ELSE nBins - 1

\* entries of the bin with index idx, in population order
RECURSIVE binEntries(_, _, _, _, _)
binEntries(entries, idx, min, max, nBins) ==
  IF entries = <<>> THEN <<>>
  ELSE (IF binIndex(Head(entries).value, min, max, nBins) = idx
        THEN <<Head(entries)>> ELSE <<>>)
       \o binEntries(Tail(entries), idx, min, max, nBins)

\* a = min + i * width and b = min + (i + 1) * width of the bin with index i
binBound(i, min, max, nBins) ==
  RAdd(min, RMul(FromInt(i), RDiv(RSub(max, min), FromInt(nBins))))

\* the bins of a population whose values differ: a and b are the numbers the
\* label prints
spreadBins(entries, min, max, nBins) ==
  [i \in 1..nBins |->
     LET ents == binEntries(entries, i - 1, min, max, nBins)
     IN [count |-> Len(ents), entries |-> ents,
         a |-> binBound(i - 1, min, max, nBins),
         b |-> binBound(i, min, max, nBins)]]

\* the useMemo with the test of min === max left out, every entry of a
\* population of equal values going to the first bin
histogramWithoutSingleBin(entries, b) ==
  IF Len(entries) = 0 THEN <<>>
  ELSE LET nBins == nBinsOf(b)
           min == MinValue(entries)
           max == MaxValue(entries)
       IN IF min = max
          THEN [i \in 1..nBins |->
                  IF i = 1 THEN [count |-> Len(entries), entries |-> entries]
                  ELSE [count |-> 0, entries |-> <<>>]]
          ELSE spreadBins(entries, min, max, nBins)

\* the histogramData useMemo (the label of the single bin left out)
histogram(entries, b) ==
  IF Len(entries) = 0 THEN <<>>
  ELSE LET nBins == nBinsOf(b)
           min == MinValue(entries)
           max == MaxValue(entries)
       IN IF min = max
          THEN <<[count |-> Len(entries), entries |-> entries]>>
          ELSE spreadBins(entries, min, max, nBins)

\* the options of the bins select
BinOptions == {10, 20, 30, 40}

MaxPopulation == 3  \* largest population

HistValues == {FromInt(0 - 1), FromInt(0), Rat(1, 3), FromInt(1), FromInt(7)}

\* one entry per (cell, instant): the i-th entry is of cell i
Populations ==
  {[i \in 1..k |-> [value |-> vs[i], hexId |-> i, timestamp |-> 0]] :
     k \in 0..MaxPopulation, vs \in [1..MaxPopulation -> HistValues]}

InitHist ==
  /\ IdleProps /\ IdleSnap /\ IdlePrice /\ IdleTimes /\ IdleRun
  /\ histEntries \in Populations
  /\ histogramData = NotBinned
  /\ stepMinutes = 15
  /\ bins \in BinOptions

\* the histogram of the population is computed
BuildHistogram ==
  /\ histogramData' = histogram(histEntries, bins)
  /\ UNCHANGED <<propVars, snapVars, priceVars, timesVars, histEntries,
                 stepMinutes, bins, runVars>>

NextHist == BuildHistogram

SpecHist == InitHist /\ [][NextHist]_vars

----------------------------------------------------------------------------
(* The distribution view: draft and applied settings, the run effect *)

\* toDateTimeLocalValue: 'YYYY-MM-DDTHH:mm', the instant cut to its minute;
\* a field value is kept as the instant new Date(value) parses it to
toDateTimeLocalValue(t) == (t \div MinuteMs) * MinuteMs

\* useState initialisers and the default-range effect: the field of an
\* endpoint of computedDefaultRange, "" when there is no range
defaultValue(t, min, max) ==
  IF min = NoTime \/ max = NoTime THEN NoValue ELSE toDateTimeLocalValue(t)

\* the dependency array of the run effect, which is also what the run
\* callback closes over (hexagonResolution is fixed in this model)
runDeps ==
  [recalcNonce |-> recalcNonce, basePrice |-> basePrice,
   demandEvents |-> demandEvents, fromValue |-> fromValue,
   maxTime |-> maxTime, minTime |-> minTime,
   multiplierData |-> multiplierData,
   normalizationEnabled |-> normalizationEnabled,
   stepMinutes |-> stepMinutes, supplyVehicles |-> supplyVehicles,
   timeframeMinutes |-> timeframeMinutes, toValue |-> toValue]

\* isDirty: some draft differs from its applied setting
isDirty ==
  \/ draftFromValue # fromValue
  \/ draftToValue # toValue
  \/ draftStepMinutes # stepMinutes
  \/ draftBins # bins

\* from = max(minTime, fromValue ? new Date(fromValue) : minTime)
clampedFrom(c) ==
  LET parsedFrom == IF c.fromValue = NoValue THEN c.minTime ELSE c.fromValue
  IN IF c.minTime > parsedFrom THEN c.minTime ELSE parsedFrom

\* to = min(maxTime, toValue ? new Date(toValue) : maxTime)
clampedTo(c) ==
  LET parsedTo == IF c.toValue = NoValue THEN c.maxTime ELSE c.toValue
  IN IF c.maxTime < parsedTo THEN c.maxTime ELSE parsedTo

\* the pushed entry without the instant of its snapshot
safeEntryUntimed(e, t) ==
  [value |-> safeNumber(e.value), hexId |-> e.hexId, timestamp |-> 0]

\* const vv = safeNumber(e.value), before its entry is pushed
safeEntry(e, t) ==
  [value |-> safeNumber(e.value), hexId |-> e.hexId, timestamp |-> t]

\* if (Number.isFinite(vv)), on the entry that carries vv
finiteEntry(e) == isFinite(e.value)

\* the entries of one snapshot that the inner loop pushes, stamped with the
\* instant
stamped(snapshot, t) ==
  SelectSeq([i \in DOMAIN snapshot |-> safeEntry(snapshot[i], t)], finiteEntry)

\* for (const t of times) collect the entries of computeSnapshotEntries(t)
RECURSIVE collectEntries(_, _)
collectEntries(c, ts) ==
  IF ts = <<>> THEN <<>>
  ELSE stamped(computeSnapshotEntries(c.demandEvents, c.supplyVehicles,
                 c.multiplierData, c.basePrice, Head(ts), c.timeframeMinutes,
                 c.normalizationEnabled), Head(ts))
       \o collectEntries(c, Tail(ts))

\* run() with the test of from > to left out: the sweep always runs
runResultUnchecked(c) ==
  LET from == clampedFrom(c)
      to == clampedTo(c)
      entries == collectEntries(c, sampleTimes(from, to, c.stepMinutes))
  IN [values |-> [i \in DOMAIN entries |-> entries[i].value],
      entries |-> entries, effectiveFrom |-> from, effectiveTo |-> to]

\* what run() hands to setDistributionResult, from the values it closed over
runResult(c) ==
  LET from == clampedFrom(c)
      to == clampedTo(c)
  IN IF from > to
     THEN [values |-> <<>>, entries |-> <<>>, effectiveFrom |-> from,
           effectiveTo |-> to]
     ELSE LET entries == collectEntries(c, sampleTimes(from, to, c.stepMinutes))
          IN [values |-> [i \in DOMAIN entries |-> entries[i].value],
              entries |-> entries, effectiveFrom |-> from, effectiveTo |-> to]

\* ++calcRunIdRef.current, with the identifier left as it is
SameRunId(id) == id

\* ++calcRunIdRef.current
NextRunId(id) == id + 1

MaxRuns == 3  \* runs started in a behaviour

\* an upload: the datasets with the data range the parent derives from them
RunData ==
  [demandEvents |-> <<[timestamp |-> 0, loc |-> 1],
                      [timestamp |-> 6 * MinuteMs, loc |-> 3]>>,
   supplyVehicles |-> <<[startTime |-> 0, endTime |-> 6 * MinuteMs, loc |-> 1]>>,
   minTime |-> 0, maxTime |-> 6 * MinuteMs + 1]

NoData ==
  [demandEvents |-> <<>>, supplyVehicles |-> <<>>, minTime |-> NoTime,
   maxTime |-> NoTime]

DataSets == {NoData, RunData}

\* a pricing table whose top multiplier is not finite
InfTable == <<Rule(FromInt(0), FromInt(1)), Rule(FromInt(1), Infinity)>>

\* the pricing tables the parent passes in this model
RunTables == {SnapTable, InfTable}

\* what the user types into the range fields: "" or a minute
DraftFromOptions == {NoValue, 8 * MinuteMs}
DraftToOptions == {4 * MinuteMs}

\* the options of the two selects that the user picks in this model
DraftStepOptions == {5, 15}
DraftBinOptions == {20, 30}

hasAnyData == Len(demandEvents) > 0 \/ Len(supplyVehicles) > 0

\* the last render's effects have run
EffectsFlushed == effectDeps = runDeps

InitRun ==
  /\ \E d \in DataSets :
        /\ demandEvents = d.demandEvents
        /\ supplyVehicles = d.supplyVehicles
        /\ minTime = d.minTime
        /\ maxTime = d.maxTime
  /\ multiplierData \in RunTables
  /\ basePrice = FromInt(3)
  /\ snapshotTime = 0
  /\ snapshotRange = NoRange
  /\ timeframeMinutes = 1
  /\ normalizationEnabled = FALSE
  /\ draftFromValue = defaultValue(minTime, minTime, maxTime)
  /\ draftToValue = defaultValue(maxTime, minTime, maxTime)
  /\ draftStepMinutes = 15
  /\ draftBins = 20
  /\ fromValue = defaultValue(minTime, minTime, maxTime)
  /\ toValue = defaultValue(maxTime, minTime, maxTime)
  /\ stepMinutes = 15
  /\ bins = 20
  /\ recalcNonce = 0
  /\ distributionResult = EmptyResult
  /\ isCalculating = FALSE
  /\ calcRunIdRef = 0
  /\ timer = NoTimer
  /\ effectDeps = Unmounted
  /\ runsStarted = 0
  /\ lastRun = NoRun
  /\ IdleSnap /\ IdlePrice /\ IdleTimes /\ IdleHist

\* what no action of the view touches
RunFrame ==
  UNCHANGED <<snapVars, priceVars, timesVars, histVars, snapshotTime,
              snapshotRange>>

\* the parent passes new datasets and their data range
Upload ==
  /\ EffectsFlushed
  /\ \E d \in DataSets :
        /\ d.demandEvents # demandEvents
        /\ demandEvents' = d.demandEvents
        /\ supplyVehicles' = d.supplyVehicles
        /\ minTime' = d.minTime
        /\ maxTime' = d.maxTime
  /\ RunFrame
  /\ UNCHANGED <<multiplierData, basePrice, timeframeMinutes,
                 normalizationEnabled, draftVars, appliedVars, recalcNonce,
                 distributionResult, isCalculating, calcRunIdRef, timer,
                 effectDeps, runsStarted, lastRun>>

\* what an edit of the form leaves alone
DraftFrame ==
  /\ RunFrame
  /\ UNCHANGED <<demandEvents, supplyVehicles, multiplierData, basePrice,
                 timeframeMinutes, normalizationEnabled, minTime, maxTime,
                 appliedVars, recalcNonce, distributionResult, isCalculating,
                 calcRunIdRef, timer, effectDeps, runsStarted, lastRun>>

\* onChange of the From field
SetDraftFromValue ==
  /\ hasAnyData /\ EffectsFlushed
  /\ \E v \in DraftFromOptions : draftFromValue' = v
  /\ UNCHANGED <<draftToValue, draftStepMinutes, draftBins>>
  /\ DraftFrame

\* onChange of the To field
SetDraftToValue ==
  /\ hasAnyData /\ EffectsFlushed
  /\ \E v \in DraftToOptions : draftToValue' = v
  /\ UNCHANGED <<draftFromValue, draftStepMinutes, draftBins>>
  /\ DraftFrame

\* a Step select that writes the applied step as well
SetStepMinutesLive ==
  /\ hasAnyData /\ EffectsFlushed
  /\ \E m \in DraftStepOptions : draftStepMinutes' = m /\ stepMinutes' = m
  /\ UNCHANGED <<draftFromValue, draftToValue, draftBins>>
  /\ RunFrame
  /\ UNCHANGED <<demandEvents, supplyVehicles, multiplierData, basePrice,
                 timeframeMinutes, normalizationEnabled, minTime, maxTime,
                 fromValue, toValue, bins, recalcNonce, distributionResult,
                 isCalculating, calcRunIdRef, timer, effectDeps, runsStarted,
                 lastRun>>

\* onValueChange of the Step select
SetDraftStepMinutes ==
  /\ hasAnyData /\ EffectsFlushed
  /\ \E m \in DraftStepOptions : draftStepMinutes' = m
  /\ UNCHANGED <<draftFromValue, draftToValue, draftBins>>
  /\ DraftFrame

\* onValueChange of the Bins select
SetDraftBins ==
  /\ hasAnyData /\ EffectsFlushed
  /\ \E b \in DraftBinOptions : draftBins' = b
  /\ UNCHANGED <<draftFromValue, draftToValue, draftStepMinutes>>
  /\ DraftFrame

\* onClick of "Full range"
FullRange ==
  /\ hasAnyData /\ EffectsFlushed
  /\ minTime # NoTime /\ maxTime # NoTime
  /\ draftFromValue' = toDateTimeLocalValue(minTime)
  /\ draftToValue' = toDateTimeLocalValue(maxTime)
  /\ UNCHANGED <<draftStepMinutes, draftBins>>
  /\ DraftFrame

\* a click that applies the range and the step but not the bins
RecalculateWithoutBins ==
  /\ hasAnyData /\ EffectsFlushed
  /\ recalcNonce < MaxRuns
  /\ fromValue' = draftFromValue
  /\ toValue' = draftToValue
  /\ stepMinutes' = draftStepMinutes
  /\ recalcNonce' = recalcNonce + 1
  /\ RunFrame
  /\ UNCHANGED <<demandEvents, supplyVehicles, multiplierData, basePrice,
                 timeframeMinutes, normalizationEnabled, minTime, maxTime,
                 draftVars, bins, distributionResult, isCalculating,
                 calcRunIdRef, timer, effectDeps, runsStarted, lastRun>>

\* onClick of "Recalculate now": the drafts are applied, the nonce is bumped
Recalculate ==
  /\ hasAnyData /\ EffectsFlushed
  /\ recalcNonce < MaxRuns
  /\ fromValue' = draftFromValue
  /\ toValue' = draftToValue
  /\ stepMinutes' = draftStepMinutes
  /\ bins' = draftBins
  /\ recalcNonce' = recalcNonce + 1
  /\ RunFrame
  /\ UNCHANGED <<demandEvents, supplyVehicles, multiplierData, basePrice,
                 timeframeMinutes, normalizationEnabled, minTime, maxTime,
                 draftVars, distributionResult, isCalculating, calcRunIdRef,
                 timer, effectDeps, runsStarted, lastRun>>

\* the run effect's body with setIsCalculating(true) left out
StartRunUnflagged ==
  /\ runsStarted < MaxRuns
  /\ calcRunIdRef' = NextRunId(calcRunIdRef)
  /\ timer' = [runId |-> calcRunIdRef', closure |-> runDeps]
  /\ runsStarted' = runsStarted + 1
  /\ UNCHANGED <<distributionResult, isCalculating>>

\* the run effect's body when there is a data range: the identifier is
\* bumped and captured, the indicator is raised, run() is put on a timer
StartRun ==
  /\ runsStarted < MaxRuns
  /\ calcRunIdRef' = NextRunId(calcRunIdRef)
  /\ isCalculating' = TRUE
  /\ timer' = [runId |-> calcRunIdRef', closure |-> runDeps]
  /\ runsStarted' = runsStarted + 1
  /\ UNCHANGED distributionResult

\* The effects of the last render run, with the values of that render.
\* The default-range effect runs when minTime or maxTime changed (and on
\* mount), the run effect when any of its dependencies changed: its cleanup
\* clears the pending timer, then it resets the result (no data range) or
\* starts a run.
FlushEffects ==
  /\ ~EffectsFlushed
  /\ LET rangeChanged == \/ effectDeps = Unmounted
                         \/ effectDeps.minTime # minTime
                         \/ effectDeps.maxTime # maxTime
         hasRange == minTime # NoTime /\ maxTime # NoTime
         setDrafts == /\ rangeChanged /\ hasRange
                      /\ draftFromValue = NoValue /\ draftToValue = NoValue
         setApplied == /\ rangeChanged /\ hasRange
                       /\ fromValue = NoValue /\ toValue = NoValue
     IN /\ draftFromValue' = IF setDrafts THEN toDateTimeLocalValue(minTime)
                             ELSE draftFromValue
        /\ draftToValue' = IF setDrafts THEN toDateTimeLocalValue(maxTime)
                           ELSE draftToValue
        /\ fromValue' = IF setApplied THEN toDateTimeLocalValue(minTime)
                        ELSE fromValue
        /\ toValue' = IF setApplied THEN toDateTimeLocalValue(maxTime)
                      ELSE toValue
        /\ recalcNonce' = IF setApplied THEN recalcNonce + 1 ELSE recalcNonce
        /\ IF ~hasRange
           THEN /\ distributionResult' = EmptyResult
                /\ isCalculating' = FALSE
                /\ timer' = NoTimer
                /\ UNCHANGED <<calcRunIdRef, runsStarted>>
           ELSE StartRun
  /\ effectDeps' = runDeps
  /\ RunFrame
  /\ UNCHANGED <<demandEvents, supplyVehicles, multiplierData, basePrice,
                 timeframeMinutes, normalizationEnabled, minTime, maxTime,
                 draftStepMinutes, draftBins, stepMinutes, bins, lastRun>>

\* the timer callback with setIsCalculating(false) left out
runKeepsFlag ==
  /\ timer # NoTimer
  /\ LET commit == timer.runId = calcRunIdRef
     IN /\ distributionResult' = IF commit THEN runResult(timer.closure)
                                 ELSE distributionResult
        /\ lastRun' = [runId |-> timer.runId, committed |-> commit]
  /\ timer' = NoTimer
  /\ RunFrame
  /\ UNCHANGED <<demandEvents, supplyVehicles, multiplierData, basePrice,
                 timeframeMinutes, normalizationEnabled, minTime, maxTime,
                 draftVars, appliedVars, recalcNonce, calcRunIdRef, effectDeps,
                 runsStarted, isCalculating>>

\* the timer fires: run() computes from what it closed over and commits if
\* its runId is still the current one
run ==
  /\ timer # NoTimer
  /\ LET commit == timer.runId = calcRunIdRef
     IN /\ distributionResult' = IF commit THEN runResult(timer.closure)
                                 ELSE distributionResult
        /\ isCalculating' = IF commit THEN FALSE ELSE isCalculating
        /\ lastRun' = [runId |-> timer.runId, committed |-> commit]
  /\ timer' = NoTimer
  /\ RunFrame
  /\ UNCHANGED <<demandEvents, supplyVehicles, multiplierData, basePrice,
                 timeframeMinutes, normalizationEnabled, minTime, maxTime,
                 draftVars, appliedVars, recalcNonce, calcRunIdRef, effectDeps,
                 runsStarted>>

NextRun ==
  \/ Upload
  \/ SetDraftFromValue
  \/ SetDraftToValue
  \/ SetDraftStepMinutes
  \/ SetDraftBins
  \/ FullRange
  \/ Recalculate
  \/ FlushEffects
  \/ run

SpecRun == InitRun /\ [][NextRun]_vars

----------------------------------------------------------------------------
(* SpecRunFair: the run protocol with its scheduling. The triggers are    *)
(* uploads, the Step select and Recalculate; the pricing table is fixed   *)

InitRunFair == InitRun /\ multiplierData = SnapTable

NextRunFair ==
  \/ Upload
  \/ SetDraftStepMinutes
  \/ Recalculate
  \/ FlushEffects
  \/ run

\* weak fairness of the timer callback, WF_vars(run), written out: run is
\* enabled exactly when a timer is pending
TimerFires == []<>(timer = NoTimer) \/ []<><<run>>_vars

\* React runs the effects of every committed render, and a timer set with
\* delay 0 fires unless it is cleared: neither step is put off forever
SpecRunFair ==
  InitRunFair /\ [][NextRunFair]_vars /\ WF_vars(FlushEffects) /\ TimerFires

----------------------------------------------------------------------------
(* The snapshot as the specification defines it, computed from the props   *)
(* directly: counts by set comprehension, statistics in two passes.        *)

ActiveDemand(hexId) ==
  Cardinality({i \in DOMAIN demandEvents :
     /\ snapshotTime - timeframeMinutes * MinuteMs <= demandEvents[i].timestamp
     /\ demandEvents[i].timestamp <= snapshotTime
     /\ latLngToCell(demandEvents[i].loc) = hexId})

ActiveSupply(hexId) ==
  Cardinality({i \in DOMAIN supplyVehicles :
     /\ supplyVehicles[i].startTime <= snapshotTime
     /\ snapshotTime <= supplyVehicles[i].endTime
     /\ latLngToCell(supplyVehicles[i].loc) = hexId})

AllCells == {latLngToCell(l) : l \in Locs \cup StatLocs}

ActiveCells == {c \in AllCells : ActiveDemand(c) > 0 \/ ActiveSupply(c) > 0}

ExpectedRaw(hexId) ==
  IF ActiveSupply(hexId) > 0 THEN Rat(ActiveDemand(hexId), ActiveSupply(hexId))
  ELSE IF ActiveDemand(hexId) > 0 THEN FromInt(1) ELSE FromInt(0)

RECURSIVE SumRaw(_)
SumRaw(cells) ==
  IF cells = {} THEN FromInt(0)
  ELSE LET c == CHOOSE x \in cells : TRUE
       IN RAdd(ExpectedRaw(c), SumRaw(cells \ {c}))

ExpectedMean == RDiv(SumRaw(ActiveCells), FromInt(Cardinality(ActiveCells)))

RECURSIVE SumSqDev(_)
SumSqDev(cells) ==
  IF cells = {} THEN FromInt(0)
  ELSE LET c == CHOOSE x \in cells : TRUE
           dev == RSub(ExpectedRaw(c), ExpectedMean)
       IN RAdd(RMul(dev, dev), SumSqDev(cells \ {c}))

\* square of the sample standard deviation (n - 1 denominator), 0 for one cell
ExpectedVariance ==
  IF Cardinality(ActiveCells) > 1
  THEN RDiv(SumSqDev(ActiveCells), FromInt(Cardinality(ActiveCells) - 1))
  ELSE FromInt(0)

\* (rawRatio - mean) / stdDev, defined when stdDev > 0
ExpectedZ(hexId) == DivSqrt(RSub(ExpectedRaw(hexId), ExpectedMean), ExpectedVariance)

\* the both-data ratio: raw, or the z-score with the raw ratio as fallback
ExpectedRatio(hexId) ==
  IF normalizationEnabled /\ ExpectedVariance.n > 0 THEN ExpectedZ(hexId)
  ELSE ExpectedRaw(hexId)

HasDemandData == Len(demandEvents) > 0
HasSupplyData == Len(supplyVehicles) > 0
MapRendered == activeHexagons # NotRendered
Sampled == snapshotEntries # NotRendered

\* the cells of the two outputs
MapCells == {activeHexagons[i].hexId : i \in DOMAIN activeHexagons}
EntryCells == {snapshotEntries[i].hexId : i \in DOMAIN snapshotEntries}

\* the both-data ratios a cell may get whichever fallback the z-score has at
\* stdDev = 0 (the raw ratio, or 0)
BothDataRatios(hexId) ==
  IF ~normalizationEnabled THEN {ExpectedRaw(hexId)}
  ELSE IF ExpectedVariance.n > 0 THEN {ExpectedZ(hexId)}
  ELSE {ExpectedRaw(hexId), FromInt(0)}

----------------------------------------------------------------------------
(* Claims about one snapshot, checked under SpecSnap *)

\* the pricing lookup as the specification defines it, on the set of rules:
\* the rule with the greatest minRatio <= ratio, else the rule with the
\* smallest minRatio, and 1 for an empty table
RulesOf(table) == {table[i] : i \in DOMAIN table}

DistinctThresholds(table) ==
  \A i, j \in DOMAIN table : i # j => table[i].minRatio # table[j].minRatio

MatchingRules(table, ratio) == {r \in RulesOf(table) : GEq(ratio, r.minRatio)}

LowestRule(table) ==
  CHOOSE r \in RulesOf(table) :
    \A q \in RulesOf(table) : ~RLess(q.minRatio, r.minRatio)

ExpectedMultiplier(table, ratio) ==
  IF table = <<>> THEN FromInt(1)
  ELSE IF MatchingRules(table, ratio) = {} THEN LowestRule(table).multiplier
  ELSE (CHOOSE r \in MatchingRules(table, ratio) :
          \A q \in MatchingRules(table, ratio) : ~RLess(r.minRatio, q.minRatio)).multiplier

PricingConfigured == multiplierData # <<>> /\ basePrice.n > 0

\* C1: when both uploaded datasets are non-empty, every active cell of every
\* snapshot gets the both-data ratio, also at an instant where the filtered
\* demand or the filtered supply is empty.
C1_ModeFromWholeDatasets ==
  (HasDemandData /\ HasSupplyData) =>
     /\ MapRendered =>
          \A i \in DOMAIN activeHexagons :
             activeHexagons[i].ratio \in BothDataRatios(activeHexagons[i].hexId)
     /\ (Sampled /\ ~PricingConfigured) =>
          \A i \in DOMAIN snapshotEntries :
             snapshotEntries[i].value \in BothDataRatios(snapshotEntries[i].hexId)

\* C2: in both-data mode with normalization enabled, a snapshot whose raw
\* ratios have stdDev = 0 emits each cell's raw ratio unchanged, and one with
\* stdDev > 0 emits (rawRatio - mean) / stdDev.
C2_ZScoreFallsBackToRaw ==
  (normalizationEnabled
     /\ (\E c \in ActiveCells : ActiveDemand(c) > 0)
     /\ (\E c \in ActiveCells : ActiveSupply(c) > 0)) =>
     /\ MapRendered =>
          \A i \in DOMAIN activeHexagons :
             activeHexagons[i].ratio = ExpectedRatio(activeHexagons[i].hexId)
     /\ (Sampled /\ ~PricingConfigured) =>
          \A i \in DOMAIN snapshotEntries :
             snapshotEntries[i].value = ExpectedRatio(snapshotEntries[i].hexId)

\* C3: in supply-only mode every active cell's emitted value is its raw
\* supply count.
C3_SupplyOnlyEmitsSupplyCount ==
  (~HasDemandData /\ HasSupplyData) =>
     /\ MapRendered =>
          \A i \in DOMAIN activeHexagons :
             activeHexagons[i].ratio
               = FromInt(ActiveSupply(activeHexagons[i].hexId))
     /\ Sampled =>
          \A i \in DOMAIN snapshotEntries :
             snapshotEntries[i].value
               = FromInt(ActiveSupply(snapshotEntries[i].hexId))

\* C4: in demand-only mode every active cell's emitted ratio is its raw
\* demand count, in the map and in the distribution view, and the both-data
\* branch (ratio, z-score, price) is not taken.
C4_DemandOnlyEmitsDemandCount ==
  (HasDemandData /\ ~HasSupplyData) =>
     /\ MapRendered =>
          /\ MapCells = ActiveCells
          /\ \A i \in DOMAIN activeHexagons :
                /\ activeHexagons[i].ratio
                     = FromInt(ActiveDemand(activeHexagons[i].hexId))
                /\ activeHexagons[i].finalPrice = FromInt(0)
     /\ Sampled =>
          /\ EntryCells = ActiveCells
          /\ Len(snapshotEntries) = Cardinality(ActiveCells)
          /\ \A i \in DOMAIN snapshotEntries :
                snapshotEntries[i].value
                  = FromInt(ActiveDemand(snapshotEntries[i].hexId))

\* a demand-only snapshot, rendered and sampled, with a cell of two events
C4_Witness ==
  /\ HasDemandData /\ ~HasSupplyData /\ MapRendered /\ Sampled
  /\ multiplierData # <<>> /\ basePrice = FromInt(3) /\ normalizationEnabled
  /\ \E i \in DOMAIN snapshotEntries : snapshotEntries[i].value = FromInt(2)
  /\ \E i \in DOMAIN activeHexagons : activeHexagons[i].ratio = FromInt(2)

\* C5: the distribution view emits prices (multiplier * basePrice) exactly
\* when both datasets are non-empty, the multiplier table is non-empty and
\* basePrice > 0; with both datasets but no table or basePrice <= 0 it emits
\* the ratio itself; with neither dataset it emits nothing.
C5_ModeSelection ==
  Sampled =>
     /\ (~HasDemandData /\ ~HasSupplyData) => snapshotEntries = <<>>
     /\ (HasDemandData /\ HasSupplyData) =>
          /\ EntryCells = ActiveCells
          /\ Len(snapshotEntries) = Cardinality(ActiveCells)
          /\ \A i \in DOMAIN snapshotEntries :
                snapshotEntries[i].value =
                  IF PricingConfigured
                  THEN RMul(ExpectedMultiplier(multiplierData,
                              ExpectedRatio(snapshotEntries[i].hexId)), basePrice)
                  ELSE ExpectedRatio(snapshotEntries[i].hexId)

\* a price-mode snapshot with two cells priced by different multipliers
C5_Witness ==
  /\ Sampled /\ HasDemandData /\ HasSupplyData /\ PricingConfigured
  /\ \E i, j \in DOMAIN snapshotEntries :
        /\ snapshotEntries[i].value = FromInt(6)
        /\ snapshotEntries[j].value = FromInt(3)

----------------------------------------------------------------------------
(* Claims about the pricing lookup, checked under SpecPrice *)

\* C6: for a non-empty table of rules with distinct minRatio, in any order,
\* and a ratio >= at least one minRatio, both lookups return the multiplier
\* of the rule with the greatest minRatio <= ratio; the expected value is a
\* function of the set of rules, so the order of the table does not matter.
C6_GreatestThresholdNotAbove ==
  (/\ multiplierData # <<>>
   /\ DistinctThresholds(multiplierData)
   /\ MatchingRules(multiplierData, priceRatio) # {}) =>
     /\ priceOut # NoNum =>
          priceOut = ExpectedMultiplier(multiplierData, priceRatio)
     /\ priceOutMap # NoNum =>
          priceOutMap = ExpectedMultiplier(multiplierData, priceRatio)

\* the table {0 -> 1, 0.5 -> 1.5, 1 -> 2} supplied out of order, ratio 0.7
\* resolved to 1.5 by both lookups
C6_Witness ==
  /\ multiplierData = <<Rule(FromInt(1), FromInt(2)), Rule(FromInt(0), FromInt(1)),
                        Rule(Rat(1, 2), Rat(3, 2))>>
  /\ priceRatio = Rat(7, 10)
  /\ priceOut = Rat(3, 2)
  /\ priceOutMap = Rat(3, 2)

\* C7: for a non-empty table (distinct minRatio) and a ratio below every
\* minRatio, both lookups return the multiplier of the rule with the
\* smallest minRatio, 0 included.
C7_BelowEveryThreshold ==
  (/\ multiplierData # <<>>
   /\ DistinctThresholds(multiplierData)
   /\ MatchingRules(multiplierData, priceRatio) = {}) =>
     /\ priceOut # NoNum => priceOut = LowestRule(multiplierData).multiplier
     /\ priceOutMap # NoNum => priceOutMap = LowestRule(multiplierData).multiplier

----------------------------------------------------------------------------
(* Claims about the sample instants, checked under SpecTimes *)

\* the step of the specification, in ticks
StepTicks == stepMinutes * MinuteMs

\* the k >= 1 with from + k*step strictly less than to
InnerSteps ==
  {k \in 1..(rangeTo - rangeFrom) : rangeFrom + k * StepTicks < rangeTo}

\* C8: for a clamped range from <= to the sample instants are from, then
\* from + k*step for each k >= 1 with from + k*step < to, then to iff
\* to # from; the sequence is strictly increasing, starts at from, ends at
\* to, and from = to yields exactly one instant.
C8_SampleInstants ==
  times # NoTimes =>
    /\ Len(times) = 1 + Cardinality(InnerSteps)
                      + (IF rangeTo # rangeFrom THEN 1 ELSE 0)
    /\ times[1] = rangeFrom
    /\ \A k \in InnerSteps : times[1 + k] = rangeFrom + k * StepTicks
    /\ times[Len(times)] = rangeTo
    /\ \A i, j \in DOMAIN times : i < j => times[i] < times[j]
    /\ rangeFrom = rangeTo => times = <<rangeFrom>>

\* a 37-minute range sampled every 15 minutes: [T0, T0+15, T0+30, T0+37]
C8_Witness ==
  /\ stepMinutes = 15
  /\ rangeTo = rangeFrom + 37 * MinuteMs
  /\ times = <<rangeFrom, rangeFrom + 15 * MinuteMs, rangeFrom + 30 * MinuteMs,
               rangeFrom + 37 * MinuteMs>>

----------------------------------------------------------------------------
(* Claims about the histogram, checked under SpecHist *)

RECURSIVE SumCounts(_)
SumCounts(data) ==
  IF data = <<>> THEN 0 ELSE Head(data).count + SumCounts(Tail(data))

\* the bins that hold the entry e
BinsHolding(e) ==
  {b \in DOMAIN histogramData :
     \E j \in DOMAIN histogramData[b].entries : histogramData[b].entries[j] = e}

\* C9: for a non-empty population and any bin setting the bin counts sum to
\* the population size, each bin's count is the number of its members, and
\* every sample is a member of exactly one bin.
C9_BinCoverage ==
  (histogramData # NotBinned /\ histEntries # <<>>) =>
    /\ SumCounts(histogramData) = Len(histEntries)
    /\ \A b \in DOMAIN histogramData :
          histogramData[b].count = Len(histogramData[b].entries)
    /\ \A i \in DOMAIN histEntries :
          Cardinality(BinsHolding(histEntries[i])) = 1

\* three samples over ten bins: the least in the first bin, the greatest in
\* the last, one strictly between
C9_Witness ==
  /\ histogramData # NotBinned
  /\ Len(histEntries) = 3
  /\ Len(histogramData) = 10
  /\ histogramData[1].count = 1
  /\ histogramData[10].count = 1
  /\ \E b \in 2..9 : histogramData[b].count = 1

----------------------------------------------------------------------------
(* Claims about the run protocol, checked under SpecRun *)

\* a step in which a run callback executes
RunStep == lastRun' # lastRun \/ (timer # NoTimer /\ timer' = NoTimer
                                   /\ effectDeps' = effectDeps)

\* a step in which the run effect starts a run
StartStep == runsStarted' > runsStarted

\* C10: a run callback changes the distribution result or the calculating
\* flag only if the run identifier it captured equals the current one when
\* it commits; every started run gets an identifier strictly greater than
\* every earlier one, which is the current identifier from then on.
C10_GuardedCommit ==
  [][/\ (RunStep /\ (distributionResult' # distributionResult
                       \/ isCalculating' # isCalculating
                       \/ lastRun'.committed))
          => timer.runId = calcRunIdRef
     /\ StartStep => /\ calcRunIdRef' > calcRunIdRef
                     /\ timer'.runId = calcRunIdRef'
     /\ calcRunIdRef' >= calcRunIdRef]_vars

\* the third run committed a non-empty result while current: two earlier
\* runs were started before it
C10_Witness ==
  /\ runsStarted = 3
  /\ calcRunIdRef = 3
  /\ lastRun = [runId |-> 3, committed |-> TRUE]
  /\ distributionResult.entries # <<>>
  /\ ~isCalculating

\* a step in which the user edits the form (the default-range effect, which
\* also fills empty drafts, runs in FlushEffects and moves effectDeps)
DraftEditStep == draftVars' # draftVars /\ effectDeps' = effectDeps

\* the latest started run has committed and nothing is pending
Settled ==
  /\ EffectsFlushed /\ timer = NoTimer
  /\ minTime # NoTime /\ maxTime # NoTime
  /\ lastRun = [runId |-> calcRunIdRef, committed |-> TRUE]

\* C11: an edit of a draft setting (from, to, step, bins, Full range) leaves
\* the applied from/to/step/bins, the nonce, the committed result, the
\* calculating flag, the run identifier and the pending timer unchanged and
\* changes no dependency of the run effect; and a settled result is the
\* sampler's result for the applied settings, whatever the drafts are.
C11_DraftsAreNotApplied ==
  /\ [][DraftEditStep =>
          /\ UNCHANGED <<appliedVars, recalcNonce, distributionResult,
                         isCalculating, calcRunIdRef, timer, runsStarted>>
          /\ runDeps' = runDeps]_vars
  /\ [](Settled => distributionResult = runResult(runDeps))

\* a settled, non-empty result while every draft differs from its applied
\* setting
C11_Witness ==
  /\ Settled
  /\ distributionResult.entries # <<>>
  /\ draftFromValue # fromValue
  /\ draftToValue # toValue
  /\ draftStepMinutes # stepMinutes
  /\ draftBins # bins

\* a step in which "Recalculate now" is clicked
RecalculateStep == recalcNonce' = recalcNonce + 1 /\ effectDeps' = effectDeps

FiniteStamped(snapshot, t) ==
  SelectSeq([i \in DOMAIN snapshot |->
               [value |-> snapshot[i].value, hexId |-> snapshot[i].hexId,
                timestamp |-> t]], finiteEntry)

\* the population of a sweep over ts when a value that is not finite
\* contributes nothing
RECURSIVE FinitePopulation(_, _)
FinitePopulation(c, ts) ==
  IF ts = <<>> THEN <<>>
  ELSE FiniteStamped(computeSnapshotEntries(c.demandEvents, c.supplyVehicles,
                       c.multiplierData, c.basePrice, Head(ts),
                       c.timeframeMinutes, c.normalizationEnabled), Head(ts))
       \o FinitePopulation(c, Tail(ts))

\* C13: a committed population holds exactly the snapshot values that were
\* finite as computed, in sweep order: a value that is not finite leaves
\* neither a value nor an entry.
C13_NonFiniteDropped ==
  (Settled /\ clampedFrom(runDeps) <= clampedTo(runDeps)) =>
     LET expected == FinitePopulation(runDeps,
                       sampleTimes(clampedFrom(runDeps), clampedTo(runDeps),
                                   stepMinutes))
     IN /\ distributionResult.entries = expected
        /\ distributionResult.values =
             [i \in DOMAIN expected |-> expected[i].value]

\* the six cells at grid distance 1 of a cell
Ring1(hexId) ==
  {hexId + d : d \in {1, 0 - 1, RowStride, 0 - RowStride, RowStride - 1,
                      1 - RowStride}}

\* the cells of the halo output
HaloCells == {inactiveHexagons[i].hexId : i \in DOMAIN inactiveHexagons}

\* C14: in every rendered snapshot the halo cells are the ring-1 neighbours
\* of the active cells that are not active themselves, each once; no halo
\* cell is active; every halo record has ratio, demand, supply and final
\* price zero.
C14_Halo ==
  MapRendered =>
    /\ HaloCells = UNION {Ring1(h) : h \in ActiveCells} \ ActiveCells
    /\ MapCells = ActiveCells
    /\ HaloCells \cap MapCells = {}
    /\ Cardinality(HaloCells) = Len(inactiveHexagons)
    /\ \A i \in DOMAIN inactiveHexagons :
          /\ inactiveHexagons[i].ratio = FromInt(0)
          /\ inactiveHexagons[i].demand = 0
          /\ inactiveHexagons[i].supply = 0
          /\ inactiveHexagons[i].finalPrice = FromInt(0)

\* two active cells that touch: each is a neighbour of the other and they
\* share two neighbours, so the halo has eight cells
C14_Witness ==
  /\ MapRendered
  /\ Cardinality(MapCells) = 2
  /\ Cardinality(HaloCells) = 8

\* C15 on the first map and the distribution view: a cell is in the active
\* list of a snapshot exactly when its demand count or its supply count at
\* the instant is not zero, and once; no record
\* of the list has both counts zero, and no halo cell is in the list. The
\* sampled snapshot of the distribution view has the same cells.
C15_ActiveIffCounted ==
  /\ MapRendered =>
       /\ \A c \in AllCells \cup HaloCells :
             c \in MapCells <=> (ActiveDemand(c) # 0 \/ ActiveSupply(c) # 0)
       /\ MapCells \subseteq AllCells
       /\ Cardinality(MapCells) = Len(activeHexagons)
       /\ \A i \in DOMAIN activeHexagons :
             activeHexagons[i].demand # 0 \/ activeHexagons[i].supply # 0
  /\ Sampled =>
       /\ \A c \in AllCells :
             c \in EntryCells <=> (ActiveDemand(c) # 0 \/ ActiveSupply(c) # 0)
       /\ EntryCells \subseteq AllCells
       /\ Cardinality(EntryCells) = Len(snapshotEntries)

\* a cell with only demand and a cell with only supply are both active,
\* while an uploaded event outside the window leaves no cell of its own
C15_Witness ==
  /\ MapRendered /\ Sampled
  /\ \E c \in MapCells : ActiveDemand(c) > 0 /\ ActiveSupply(c) = 0
  /\ \E c \in MapCells : ActiveDemand(c) = 0 /\ ActiveSupply(c) > 0
  /\ Len(demandEvents) = 2
  /\ \E c \in AllCells : ActiveDemand(c) = 1

\* the demand events and the supply records active at the instant
ActiveEvents ==
  {i \in DOMAIN demandEvents :
     /\ snapshotTime - timeframeMinutes * MinuteMs <= demandEvents[i].timestamp
     /\ demandEvents[i].timestamp <= snapshotTime}

ActiveVehicles ==
  {i \in DOMAIN supplyVehicles :
     /\ supplyVehicles[i].startTime <= snapshotTime
     /\ snapshotTime <= supplyVehicles[i].endTime}

\* the keys of the two count maps
DemandKeys == {latLngToCell(demandEvents[i].loc) : i \in ActiveEvents}
SupplyKeys == {latLngToCell(supplyVehicles[i].loc) : i \in ActiveVehicles}

RECURSIVE SumDemand(_)
SumDemand(hexagons) ==
  IF hexagons = <<>> THEN 0
  ELSE Head(hexagons).demand + SumDemand(Tail(hexagons))

RECURSIVE SumSupply(_)
SumSupply(hexagons) ==
  IF hexagons = <<>> THEN 0
  ELSE Head(hexagons).supply + SumSupply(Tail(hexagons))

RECURSIVE SumValues(_)
SumValues(entries) ==
  IF entries = <<>> THEN FromInt(0)
  ELSE RAdd(Head(entries).value, SumValues(Tail(entries)))

\* C16: in every rendered snapshot the demand counts of the cells add up to
\* the number of active demand events and the supply counts to the number
\* of active supply records, and the cells are the union of the keys of the
\* two count maps; the distribution view's snapshot has the same cells, and
\* with one dataset its values, the counts, add up to the number of active
\* records.
C16_BucketingConservation ==
  /\ MapRendered =>
       /\ SumDemand(activeHexagons) = Cardinality(ActiveEvents)
       /\ SumSupply(activeHexagons) = Cardinality(ActiveVehicles)
       /\ MapCells = DemandKeys \cup SupplyKeys
       /\ {activeHexagons[i].hexId :
             i \in {j \in DOMAIN activeHexagons : activeHexagons[j].demand > 0}}
            = DemandKeys
       /\ {activeHexagons[i].hexId :
             i \in {j \in DOMAIN activeHexagons : activeHexagons[j].supply > 0}}
            = SupplyKeys
  /\ Sampled =>
       /\ EntryCells = DemandKeys \cup SupplyKeys
       /\ (HasDemandData /\ ~HasSupplyData) =>
             SumValues(snapshotEntries) = FromInt(Cardinality(ActiveEvents))
       /\ (HasSupplyData /\ ~HasDemandData) =>
             SumValues(snapshotEntries) = FromInt(Cardinality(ActiveVehicles))

\* two active demand events fall into one cell, which also holds a vehicle
C16_Witness ==
  /\ MapRendered
  /\ Cardinality(ActiveEvents) = 2
  /\ Cardinality(DemandKeys) = 1
  /\ DemandKeys = SupplyKeys

\* the value the distribution view shows for a cell, when it shows one
EntryValues(hexId) ==
  {snapshotEntries[i].value :
     i \in {j \in DOMAIN snapshotEntries : snapshotEntries[j].hexId = hexId}}

\* C17: the records counted in a snapshot at instant t with lookback w are
\* the demand events with t - w <= timestamp <= t and the supply records
\* with startTime <= t <= endTime, a record on a bound included: the counts
\* of every cell of the map are the numbers of such records in the cell, so
\* are the values of the distribution view with one dataset, and empty
\* datasets give an empty snapshot.
C17_TemporalFilter ==
  /\ MapRendered =>
       /\ \A i \in DOMAIN activeHexagons :
             /\ activeHexagons[i].demand = ActiveDemand(activeHexagons[i].hexId)
             /\ activeHexagons[i].supply = ActiveSupply(activeHexagons[i].hexId)
       /\ \A c \in AllCells \ MapCells :
             ActiveDemand(c) = 0 /\ ActiveSupply(c) = 0
       /\ (demandEvents = <<>> /\ supplyVehicles = <<>>) =>
             activeHexagons = <<>> /\ inactiveHexagons = <<>>
  /\ Sampled =>
       /\ \A c \in AllCells :
             /\ (HasDemandData /\ ~HasSupplyData /\ ActiveDemand(c) > 0) =>
                   EntryValues(c) = {FromInt(ActiveDemand(c))}
             /\ (HasSupplyData /\ ~HasDemandData /\ ActiveSupply(c) > 0) =>
                   EntryValues(c) = {FromInt(ActiveSupply(c))}
             /\ (ActiveDemand(c) = 0 /\ ActiveSupply(c) = 0) =>
                   EntryValues(c) = {}
       /\ (demandEvents = <<>> /\ supplyVehicles = <<>>) => snapshotEntries = <<>>

\* one event exactly at the start of the window, one exactly at the
\* instant, and a vehicle whose availability ends exactly at the instant,
\* all three counted
C17_Witness ==
  /\ MapRendered
  /\ \E i, j \in ActiveEvents :
        /\ demandEvents[i].timestamp = snapshotTime - timeframeMinutes * MinuteMs
        /\ demandEvents[j].timestamp = snapshotTime
  /\ \E v \in ActiveVehicles : supplyVehicles[v].endTime = snapshotTime
  /\ SumDemand(activeHexagons) = 2
  /\ SumSupply(activeHexagons) = 1

\* C18: with the same props and the same instant, the distribution view and
\* the map have the same cells, and the distribution value of a cell is the
\* map's final price of the cell in price mode and the map's ratio of the
\* cell in every other mode.
C18_SamePolicy ==
  (MapRendered /\ Sampled) =>
     /\ EntryCells = MapCells
     /\ \A i \in DOMAIN snapshotEntries : \A j \in DOMAIN activeHexagons :
           snapshotEntries[i].hexId = activeHexagons[j].hexId =>
              snapshotEntries[i].value =
                IF distributionMode(demandEvents, supplyVehicles,
                                    multiplierData, basePrice) = "price"
                THEN activeHexagons[j].finalPrice
                ELSE activeHexagons[j].ratio

\* the start of the range of a pending run: the From field, or the start of
\* the data when the field is empty or earlier than the data
PendingFrom ==
  IF timer.closure.fromValue = NoValue
     \/ timer.closure.fromValue < timer.closure.minTime
  THEN timer.closure.minTime ELSE timer.closure.fromValue

\* the end of the range of a pending run: the To field, or the end of the
\* data when the field is empty or later than the data
PendingTo ==
  IF timer.closure.toValue = NoValue
     \/ timer.closure.toValue > timer.closure.maxTime
  THEN timer.closure.maxTime ELSE timer.closure.toValue

\* C19: a run whose range is empty after clamping (from > to) commits the
\* empty population with the clamped from and to as effective range and
\* clears the calculating flag.
C19_EmptyRange ==
  [][(RunStep /\ PendingFrom > PendingTo) =>
        /\ distributionResult' =
             [values |-> <<>>, entries |-> <<>>, effectiveFrom |-> PendingFrom,
              effectiveTo |-> PendingTo]
        /\ ~isCalculating'
        /\ lastRun' = [runId |-> calcRunIdRef, committed |-> TRUE]]_vars

\* an empty range was committed over a result that had entries: the From
\* field lies after the end of the data
C19_Witness ==
  /\ Settled
  /\ ~isCalculating
  /\ hasAnyData
  /\ fromValue > maxTime
  /\ distributionResult.effectiveFrom = fromValue
  /\ distributionResult.effectiveFrom > distributionResult.effectiveTo
  /\ distributionResult.entries = <<>>
  /\ runsStarted > 1

----------------------------------------------------------------------------
(* Claims about the sweep loop, checked under SpecSweep *)

\* a step of the loop that fills times
LoopStep == sweepPc = "loop" /\ sweepPc' = "loop"

\* C20: for every range and every integer step, zero and negative ones
\* included, each pass of the sampling loop moves the instant forward by at
\* least one minute and adds one instant; the sweep reaches its end; and at
\* the end times is defined: empty when from > to, otherwise from first, to
\* last, strictly increasing, with at most one instant per minute of the
\* range besides the end.
C20_SweepTerminates ==
  /\ [][LoopStep => /\ loopT' >= loopT + MinuteMs
                    /\ rangeTo - loopT' < rangeTo - loopT
                    /\ Len(times') = Len(times) + 1]_vars
  /\ <>(sweepPc = "done")
  /\ [](sweepPc = "done" =>
          IF rangeFrom > rangeTo THEN times = <<>>
          ELSE /\ times[1] = rangeFrom
               /\ times[Len(times)] = rangeTo
               /\ \A i, j \in DOMAIN times : i < j => times[i] < times[j]
               /\ Len(times) <= (rangeTo - rangeFrom) \div MinuteMs + 2
               /\ times = sampleTimes(rangeFrom, rangeTo, stepMinutes))

\* a sweep with step 0 went through the loop and ended
C20_Witness ==
  /\ sweepPc = "done"
  /\ stepMinutes = 0
  /\ Len(times) > 3
  /\ loopT >= rangeTo

----------------------------------------------------------------------------
(* Claims about failing neighbour lookups, checked under SpecHalo *)

\* C21: when gridDisk throws for some active cells, the halo is the ring-1
\* neighbours of the other active cells minus the active cells, each once,
\* and the active list still has one record for every active cell, the
\* failing ones included, with its counts.
C21_FailedLookupSwallowed ==
  MapRendered =>
    /\ HaloCells = UNION {Ring1(h) : h \in ActiveCells \ gridDiskThrows}
                     \ ActiveCells
    /\ Cardinality(HaloCells) = Len(inactiveHexagons)
    /\ MapCells = ActiveCells
    /\ Len(activeHexagons) = Cardinality(ActiveCells)
    /\ \A i \in DOMAIN activeHexagons :
          /\ activeHexagons[i].demand = ActiveDemand(activeHexagons[i].hexId)
          /\ activeHexagons[i].supply = ActiveSupply(activeHexagons[i].hexId)

\* two active cells, the lookup of the first throws: the halo is the ring of
\* the second without the first, and both cells have their record
C21_Witness ==
  /\ MapRendered
  /\ Cardinality(MapCells) = 2
  /\ Cardinality(gridDiskThrows \cap MapCells) = 1
  /\ Cardinality(HaloCells) = 5

----------------------------------------------------------------------------
(* Claims about the normalised ratio, checked under SpecStats *)

\* the raw ratios of the active cells are not all equal: stdDev > 0
Spread == ExpectedVariance.n > 0

\* C22: with normalization enabled, both kinds of record active and raw
\* ratios that are not all equal, the ratio of every cell of the map and the
\* value of every cell of the distribution view is (x - mean) / stddev, with
\* the mean of the raw ratios of the active cells and their sample (n - 1)
\* standard deviation, both computed directly in two passes.
C22_ZScore ==
  (normalizationEnabled /\ DemandKeys # {} /\ SupplyKeys # {} /\ Spread
     /\ ~PricingConfigured) =>
     /\ MapRendered =>
          \A i \in DOMAIN activeHexagons :
             activeHexagons[i].ratio = ExpectedZ(activeHexagons[i].hexId)
     /\ Sampled =>
          \A i \in DOMAIN snapshotEntries :
             snapshotEntries[i].value = ExpectedZ(snapshotEntries[i].hexId)

\* three active cells with raw ratios 2, 1 and 0: mean 1, sample variance 1,
\* z-scores 1, 0 and -1
C22_Witness ==
  /\ MapRendered /\ Sampled /\ normalizationEnabled
  /\ Cardinality(ActiveCells) = 3
  /\ {ExpectedRaw(c) : c \in ActiveCells} = {FromInt(0), FromInt(1), FromInt(2)}
  /\ {activeHexagons[i].ratio : i \in DOMAIN activeHexagons}
       = {DivSqrt(FromInt(1), FromInt(1)), DivSqrt(FromInt(0), FromInt(1)),
          DivSqrt(FromInt(0 - 1), FromInt(1))}

----------------------------------------------------------------------------
(* Claims about the map with the validity check, checked under SpecMapV2 *)

MapV2Rendered == mapV2 # NotRenderedV2

\* the records of the counted cells in the list of the map with the log ratio
CountedV2 ==
  {mapV2.activeHexagons[i] : i \in {j \in DOMAIN mapV2.activeHexagons :
                                      "sumSupply" \in DOMAIN mapV2.activeHexagons[j]}}

OneOrZero(demand) == IF demand > 0 THEN FromInt(1) ELSE FromInt(0)

\* C23: the ratio of every cell is a finite number, both the raw ratio of
\* the first map and the log ratio of the second; when both kinds of record
\* are active and the cell has no supply, it is 1 if the cell has demand and
\* 0 otherwise.
C23_RatioTotality ==
  /\ MapRendered =>
       \A i \in DOMAIN activeHexagons :
          /\ isFinite(activeHexagons[i].ratio)
          /\ (DemandKeys # {} /\ SupplyKeys # {} /\ activeHexagons[i].supply = 0)
               => activeHexagons[i].ratio = OneOrZero(activeHexagons[i].demand)
  /\ MapV2Rendered =>
       /\ \A i \in DOMAIN mapV2.activeHexagons :
             isFinite(mapV2.activeHexagons[i].ratio)
       /\ \A hex \in CountedV2 :
             (DemandKeys # {} /\ SupplyKeys # {} /\ hex.sumSupply = 0)
               => hex.ratio = OneOrZero(hex.sumDemand)

\* both maps rendered a snapshot with a cell of demand and no supply next to
\* a cell with supply
C23_Witness ==
  /\ MapRendered /\ MapV2Rendered
  /\ DemandKeys # {} /\ SupplyKeys # {}
  /\ \E hex \in CountedV2 :
        hex.sumSupply = 0 /\ hex.sumDemand > 0 /\ hex.ratio = FromInt(1)
  /\ \E hex \in CountedV2 : hex.sumSupply > 0 /\ hex.sumDemand = 0
  /\ \E i \in DOMAIN activeHexagons :
        activeHexagons[i].supply = 0 /\ activeHexagons[i].demand > 0

\* the cells of the active list of the map with the validity check
V2Cells == {mapV2.activeHexagons[i].hexId : i \in DOMAIN mapV2.activeHexagons}

\* C15 on the map with the validity check: a cell is in the active list of
\* a snapshot exactly when its demand count or its supply count at the
\* instant is not zero; no halo neighbour is a member of the list.
C15_ActiveIffCountedV2 ==
  MapV2Rendered =>
    /\ V2Cells = DemandKeys \cup SupplyKeys
    /\ \A i \in DOMAIN mapV2.inactiveHexagons :
          mapV2.inactiveHexagons[i].hexId \notin V2Cells

\* the demand timestamps and the supply start and end times that are loaded
LoadedTimes ==
  {demandEvents[i].timestamp : i \in DOMAIN demandEvents}
    \cup {supplyVehicles[i].startTime : i \in DOMAIN supplyVehicles}
    \cup {supplyVehicles[i].endTime : i \in DOMAIN supplyVehicles}

\* the snapshot time lies outside the provided range or, when none is
\* provided, outside the range of the loaded times
OutsideApplicableRange ==
  IF snapshotRange # NoRange
  THEN snapshotTime < snapshotRange.minTime \/ snapshotTime > snapshotRange.maxTime
  ELSE /\ LoadedTimes # {}
       /\ \/ \A t \in LoadedTimes : snapshotTime < t
          \/ \A t \in LoadedTimes : snapshotTime > t

\* C29: a snapshot time outside the provided range, or outside the range of
\* the loaded demand timestamps and supply start and end times when no range
\* is provided, is reported invalid and no hexagon layer is rendered.
C29_SnapshotValidity ==
  (MapV2Rendered /\ OutsideApplicableRange) =>
     /\ ~mapV2.isSnapshotValid
     /\ mapV2.layers = <<>>

----------------------------------------------------------------------------
(* Claims about Recalculate and the committed population, checked under   *)
(* SpecRun                                                                *)

\* the effects of the render that follows a click on Recalculate run
RecalculateFlushStep ==
  /\ effectDeps # Unmounted
  /\ effectDeps.recalcNonce # recalcNonce
  /\ effectDeps' # effectDeps

\* C24: a click on Recalculate copies the four drafts to the applied
\* settings in one step, adds one to the nonce and leaves one recomputation
\* pending, whether or not an applied value changed; the effects that follow
\* start exactly one run and nothing stays pending; and from a state where
\* drafts and applied settings agree, they only come to differ in a step that
\* changes a draft.
C24_RecalculateApplies ==
  /\ [][RecalculateStep =>
          /\ <<fromValue', toValue', stepMinutes', bins'>> = draftVars
          /\ draftVars' = draftVars
          /\ ~isDirty'
          /\ effectDeps' # runDeps'
          /\ UNCHANGED <<runsStarted, distributionResult, timer>>]_vars
  /\ [][RecalculateFlushStep =>
          /\ runsStarted' = runsStarted + 1
          /\ timer'.closure = runDeps'
          /\ effectDeps' = runDeps']_vars
  /\ [][(~isDirty /\ isDirty') => draftVars' # draftVars]_vars

\* Recalculate was clicked with no draft edited since the last run: the
\* applied settings are the ones the last effects saw, only the nonce moved,
\* and a recomputation is pending
C24_Witness ==
  /\ effectDeps # Unmounted
  /\ effectDeps.recalcNonce + 1 = recalcNonce
  /\ effectDeps.fromValue = fromValue /\ effectDeps.toValue = toValue
  /\ effectDeps.stepMinutes = stepMinutes
  /\ effectDeps.minTime = minTime
  /\ ~isDirty
  /\ effectDeps # runDeps
  /\ lastRun.committed

\* the cells with a demand event in the window of instant t or with a
\* vehicle available at t
ActiveCellsAt(t) ==
  {latLngToCell(demandEvents[i].loc) :
     i \in {j \in DOMAIN demandEvents :
              /\ t - timeframeMinutes * MinuteMs <= demandEvents[j].timestamp
              /\ demandEvents[j].timestamp <= t}}
  \cup
  {latLngToCell(supplyVehicles[i].loc) :
     i \in {j \in DOMAIN supplyVehicles :
              /\ supplyVehicles[j].startTime <= t
              /\ t <= supplyVehicles[j].endTime}}

\* the sample instants of the settled run
SettledTimes ==
  LET ts == sampleTimes(clampedFrom(runDeps), clampedTo(runDeps), stepMinutes)
  IN {ts[i] : i \in DOMAIN ts}

\* the positions of the committed entries of cell c at instant t
EntriesOf(c, t) ==
  {i \in DOMAIN distributionResult.entries :
     /\ distributionResult.entries[i].hexId = c
     /\ distributionResult.entries[i].timestamp = t}

\* C25: in a settled result every sample instant contributes exactly one
\* entry for each cell active at that instant, tagged with the cell and the
\* instant, and no other entry; the list of values has the length of the list
\* of entries and holds the entries' values in the same order.
C25_OneEntryPerActiveCell ==
  (Settled /\ clampedFrom(runDeps) <= clampedTo(runDeps)) =>
     /\ \A t \in SettledTimes : \A c \in AllCells :
           Cardinality(EntriesOf(c, t)) = IF c \in ActiveCellsAt(t) THEN 1 ELSE 0
     /\ \A i \in DOMAIN distributionResult.entries :
           /\ distributionResult.entries[i].timestamp \in SettledTimes
           /\ distributionResult.entries[i].hexId \in AllCells
     /\ Len(distributionResult.values) = Len(distributionResult.entries)
     /\ \A i \in DOMAIN distributionResult.entries :
           distributionResult.values[i] = distributionResult.entries[i].value

\* a settled result over three instants, the last of them with two active
\* cells: four entries
C25_Witness ==
  /\ Settled
  /\ Cardinality(SettledTimes) = 3
  /\ Len(distributionResult.entries) = 4
  /\ \E t \in SettledTimes : Cardinality(ActiveCellsAt(t)) = 2

----------------------------------------------------------------------------
(* Claims about the layout of the bins, checked under SpecHist *)

Binned == histogramData # NotBinned

PopValues == {histEntries[i].value : i \in DOMAIN histEntries}

PopMin == CHOOSE v \in PopValues : \A w \in PopValues : ~RLess(w, v)
PopMax == CHOOSE v \in PopValues : \A w \in PopValues : ~RLess(v, w)

\* C26: a population that is not empty and whose values are all equal gets
\* one bin, whose count is the size of the population and whose entries are
\* the whole population.
C26_SingleBin ==
  (Binned /\ Cardinality(PopValues) = 1) =>
     /\ Len(histogramData) = 1
     /\ histogramData[1].count = Len(histEntries)
     /\ histogramData[1].entries = histEntries

\* three entries of one value in one bin
C26_Witness ==
  /\ Binned
  /\ Len(histEntries) = 3
  /\ Cardinality(PopValues) = 1
  /\ Len(histogramData) = 1

\* the bins setting rounded and clamped to 5..60
ExpectedBins == IF bins < 5 THEN 5 ELSE IF bins > 60 THEN 60 ELSE bins

\* min + i * width with width = (max - min) / nBins
ExpectedBound(i) ==
  RAdd(PopMin, RMul(FromInt(i), RDiv(RSub(PopMax, PopMin), FromInt(ExpectedBins))))

\* C27: a population with min < max gets exactly nBins bins, nBins the bins
\* setting clamped to 5..60; the bin with index i runs from min + i * width
\* to min + (i + 1) * width, so the bins ascend and each begins where the one
\* before ends; every member of a bin is at or above its lower bound and below
\* its upper bound, except that the last bin also holds the greatest value;
\* the least value is in the first bin and the greatest in the last.
C27_BinLayout ==
  (Binned /\ Cardinality(PopValues) > 1) =>
     /\ Len(histogramData) = ExpectedBins
     /\ \A k \in DOMAIN histogramData :
           /\ histogramData[k].a = ExpectedBound(k - 1)
           /\ histogramData[k].b = ExpectedBound(k)
           /\ RLess(histogramData[k].a, histogramData[k].b)
           /\ k < Len(histogramData) => histogramData[k].b = histogramData[k + 1].a
           /\ \A j \in DOMAIN histogramData[k].entries :
                 LET v == histogramData[k].entries[j].value
                 IN /\ ~RLess(v, histogramData[k].a)
                    /\ \/ RLess(v, histogramData[k].b)
                       \/ k = Len(histogramData) /\ v = PopMax
     /\ \A i \in DOMAIN histEntries :
           /\ histEntries[i].value = PopMin => 1 \in BinsHolding(histEntries[i])
           /\ histEntries[i].value = PopMax
                => Len(histogramData) \in BinsHolding(histEntries[i])

\* the values -1, 1/3 and 7 over thirty bins: 1/3 is the lower bound of the
\* bin with index 5 and is a member of that bin
C27_Witness ==
  /\ Binned
  /\ PopValues = {FromInt(0 - 1), Rat(1, 3), FromInt(7)}
  /\ Len(histogramData) = 30
  /\ histogramData[6].a = Rat(1, 3)
  /\ histogramData[6].count = 1
  /\ histogramData[1].count = 1
  /\ histogramData[30].count = 1

----------------------------------------------------------------------------
(* Claims about progress of the run protocol, checked under SpecRunFair *)

\* a run is on its timer and nothing has changed since its effect ran
RunPending == timer # NoTimer /\ EffectsFlushed /\ isCalculating

\* the indicator is down and the committed result is that of the run started
\* last, computed from the settings and props applied now
ResultIsCurrent ==
  /\ ~isCalculating
  /\ timer = NoTimer
  /\ lastRun = [runId |-> calcRunIdRef, committed |-> TRUE]
  /\ distributionResult = runResult(runDeps)

\* C30: the calculating indicator never stays up forever; the effects of a
\* trigger run while a run may still be started; and once a run is pending,
\* either a further trigger arrives (a dependency of the run effect changes)
\* or the indicator comes down with the result of the run started last,
\* computed from the settings applied now, committed.
C30_EventuallySettles ==
  /\ isCalculating ~> ~isCalculating
  /\ (~EffectsFlushed /\ runsStarted < MaxRuns) ~> EffectsFlushed
  /\ RunPending ~> (ResultIsCurrent \/ ~EffectsFlushed)

\* three runs were started, the timers of the first two were cleared by the
\* triggers that followed, and the third has committed its result
C30_Witness ==
  /\ ResultIsCurrent /\ EffectsFlushed
  /\ runsStarted = 3
  /\ recalcNonce >= 2
  /\ lastRun.runId = 3
  /\ distributionResult.entries # <<>>

----------------------------------------------------------------------------
(* Claims about the input arrays, checked under SpecColors *)

\* C28: no render of the map changes or reorders an array it was given: the
\* demand events, the supply vehicles, the multiplier table and the stops of
\* the heatmap are after the step what they were before it.
C28_InputsNotModified ==
  [][/\ demandEvents' = demandEvents
     /\ supplyVehicles' = supplyVehicles
     /\ multiplierData' = multiplierData
     /\ heatmap' = heatmap]_vars

====
